---------------------------- MODULE Spec2Model ----------------------------
(***************************************************************************)
(* InlineImageAssets (src/index.js): asset-name resolution, the per-scope  *)
(* resolution caches, the registry writers and the batch render pipeline.  *)
(*                                                                         *)
(* Strings are sequences of one-character strings, so that the name        *)
(* normalisers are computed character by character as the code does.       *)
(* Locations (URLs, inline data) are sequences of string pieces.           *)
(***************************************************************************)
EXTENDS Naturals, Integers, Sequences, FiniteSets, TLC

(***************************************************************************)
(* Characters and strings                                                  *)
(***************************************************************************)
UpperLetters == <<"A","B","C","D","E","F","G","H","I","J","K","L","M",
                  "N","O","P","Q","R","S","T","U","V","W","X","Y","Z">>
LowerLetters == <<"a","b","c","d","e","f","g","h","i","j","k","l","m",
                  "n","o","p","q","r","s","t","u","v","w","x","y","z">>
Digits == {"0","1","2","3","4","5","6","7","8","9"}

RangeOf(s) == {s[i] : i \in DOMAIN s}

IsWhitespace(c) == c \in {" ", "\t"}

\* String.prototype.toLowerCase on one character ("É" stands for the
\* accented letters, which have a lower-case form too).
LowerChar(c) ==
    IF \E i \in DOMAIN UpperLetters : UpperLetters[i] = c
    THEN LowerLetters[CHOOSE i \in DOMAIN UpperLetters : UpperLetters[i] = c]
    ELSE IF c = "É" THEN "é" ELSE c

toLowerCase(s) == [i \in DOMAIN s |-> LowerChar(s[i])]

\* normalize('NFD') followed by the removal of U+0300..U+036F: an accented
\* letter loses its accent, every other character is kept.
StripDiacritic(c) == IF c = "é" THEN "e" ELSE IF c = "É" THEN "E" ELSE c

\* The class [a-zA-Z0-9_\-\.] (the same class as [a-zA-Z0-9._-]).
IsFilenameChar(c) ==
    \/ c \in RangeOf(UpperLetters)
    \/ c \in RangeOf(LowerLetters)
    \/ c \in Digits
    \/ c \in {"_", "-", "."}

RECURSIVE DropLeading(_, _)
DropLeading(s, drop) ==
    IF s # <<>> /\ Head(s) \in drop THEN DropLeading(Tail(s), drop) ELSE s

RECURSIVE DropTrailing(_, _)
DropTrailing(s, drop) ==
    IF s # <<>> /\ s[Len(s)] \in drop
    THEN DropTrailing(SubSeq(s, 1, Len(s) - 1), drop) ELSE s

\* String.prototype.trim
trim(s) == DropTrailing(DropLeading(s, {" ", "\t"}), {" ", "\t"})

\* replace(/^_+|_+$/g, '')
TrimUnderscores(s) == DropTrailing(DropLeading(s, {"_"}), {"_"})

\* replace(/_+/g, '_')
RECURSIVE CollapseUnderscores(_)
CollapseUnderscores(s) ==
    IF Len(s) < 2 THEN s
    ELSE IF s[1] = "_" /\ s[2] = "_" THEN CollapseUnderscores(Tail(s))
    ELSE <<s[1]>> \o CollapseUnderscores(Tail(s))

\* replace(/\s+/g, '_'): every maximal run of whitespace becomes one '_'.
RECURSIVE ReplaceWhitespaceRuns(_)
ReplaceWhitespaceRuns(s) ==
    IF s = <<>> THEN <<>>
    ELSE IF IsWhitespace(s[1])
         THEN <<"_">> \o ReplaceWhitespaceRuns(DropLeading(s, {" ", "\t"}))
         ELSE <<s[1]>> \o ReplaceWhitespaceRuns(Tail(s))

\* replace(/[^a-zA-Z0-9_\-\.]/g, '_')
ReplaceOtherChars(s) == [i \in DOMAIN s |-> IF IsFilenameChar(s[i]) THEN s[i] ELSE "_"]

Unnamed == <<"u","n","n","a","m","e","d">>

\* if (!sanitized || sanitized === '.') return 'unnamed'; return sanitized.trim()
TrimmedOrUnnamed(sanitized) ==
    IF sanitized = <<>> \/ sanitized = <<".">> THEN Unnamed ELSE trim(sanitized)

sanitizePathSegment(segment) ==
    TrimmedOrUnnamed(TrimUnderscores(CollapseUnderscores(ReplaceOtherChars(
        [i \in DOMAIN segment |-> StripDiacritic(segment[i])]))))

sanitizeFilename(name) == sanitizePathSegment(name)

\* name || 'unnamed'
OrUnnamed(name) == IF name = <<>> THEN Unnamed ELSE name

sanitizeImageBaseName(baseName) ==
    OrUnnamed(TrimUnderscores(CollapseUnderscores(
        ReplaceOtherChars(ReplaceWhitespaceRuns(trim(baseName))))))

getCanonicalAssetKey(name) == toLowerCase(sanitizeImageBaseName(name))

SUPPORTED_FORMATS ==
    << <<"p","n","g">>, <<"j","p","g">>, <<"j","p","e","g">>, <<"g","i","f">>,
       <<"w","e","b","p">>, <<"b","m","p">>, <<"s","v","g">> >>

IsSupportedFormat(ext) == \E i \in DOMAIN SUPPORTED_FORMATS : SUPPORTED_FORMATS[i] = ext

\* String.prototype.lastIndexOf('.'), 1-based; 0 when there is no dot.
LastDot(s) ==
    IF \E i \in DOMAIN s : s[i] = "."
    THEN CHOOSE i \in DOMAIN s : s[i] = "." /\ \A j \in DOMAIN s : s[j] = "." => j <= i
    ELSE 0


(***************************************************************************)
(* Values                                                                  *)
(***************************************************************************)
\* null / undefined / '' : every "no value" the code tests with !x.
NoValue == <<>>

StartsWith(s, prefix) ==
    Len(s) >= Len(prefix) /\ SubSeq(s, 1, Len(prefix)) = prefix

\* A registry record {name, filename, url, data, isImageDir}; a missing
\* field is NoValue.
AssetRecord(name, url, filename, data, isImageDir) ==
    [name |-> name, url |-> url, filename |-> filename, data |-> data,
     isImageDir |-> isImageDir]

\* JS Map, in insertion order: a sequence of entries [k, v].
MapHas(m, k) == \E i \in DOMAIN m : m[i].k = k
MapGet(m, k) ==
    IF MapHas(m, k) THEN m[CHOOSE i \in DOMAIN m : m[i].k = k].v ELSE NoValue
MapSet(m, k, v) ==
    IF MapHas(m, k)
    THEN [i \in DOMAIN m |-> IF m[i].k = k THEN [k |-> k, v |-> v] ELSE m[i]]
    ELSE Append(m, [k |-> k, v |-> v])
MapSetIfAbsent(m, k, v) == IF MapHas(m, k) THEN m ELSE MapSet(m, k, v)
MapKeys(m) == {m[i].k : i \in DOMAIN m}

\* Array.prototype.find / some over a sequence of records, by name.
HasNamed(seq, name) == \E i \in DOMAIN seq : seq[i].name = name
FindNamed(seq, name) ==
    seq[CHOOSE i \in DOMAIN seq :
            seq[i].name = name /\ \A j \in DOMAIN seq : seq[j].name = name => i <= j]

SelectSeqIdx(seq, Keep(_)) ==
    LET F[i \in 0..Len(seq)] ==
            IF i = 0 THEN <<>>
            ELSE IF Keep(i) THEN Append(F[i - 1], seq[i]) ELSE F[i - 1]
    IN  F[Len(seq)]

(***************************************************************************)
(* File names and URLs                                                     *)
(***************************************************************************)
IMAGE_PREFIX == <<"i","n","l","i","n","e","_","a","s","s","e","t","s">>
PATH_SEPARATOR == <<"_","_">>
PERSONA_PREFIX == IMAGE_PREFIX \o PATH_SEPARATOR \o <<"p","e","r","s","o","n","a">> \o PATH_SEPARATOR

getCharacterFilePrefix(characterName) ==
    IMAGE_PREFIX \o PATH_SEPARATOR \o sanitizePathSegment(characterName) \o PATH_SEPARATOR

getPersonaFilePrefix(personaName) ==
    PERSONA_PREFIX \o sanitizePathSegment(personaName) \o PATH_SEPARATOR

getAssetFullFilename(characterName, assetFilename) ==
    getCharacterFilePrefix(characterName) \o sanitizePathSegment(assetFilename)

getPersonaAssetFullFilename(personaName, assetFilename) ==
    getPersonaFilePrefix(personaName) \o sanitizePathSegment(assetFilename)

\* name.substring(0, lastDot) when lastDot > 0 (0-based), else name.
CutAt(name, lastDot) == IF lastDot > 1 THEN SubSeq(name, 1, lastDot - 1) ELSE name
StripExtension(name) == CutAt(name, LastDot(name))

\* fileName.split('.').pop().toLowerCase()
ExtensionOf(fileName) == toLowerCase(SubSeq(fileName, LastDot(fileName) + 1, Len(fileName)))

\* fileName.substring(0, fileName.lastIndexOf('.')) (used where a dot is known)
BaseOf(fileName) == SubSeq(fileName, 1, LastDot(fileName) - 1)

\* name.startsWith(prefix) ? name.substring(prefix.length) : name
StripPrefix(fullFilename, prefix) ==
    IF StartsWith(fullFilename, prefix)
    THEN SubSeq(fullFilename, Len(prefix) + 1, Len(fullFilename))
    ELSE fullFilename

extractAssetName(fullFilename, characterName) ==
    StripExtension(StripPrefix(fullFilename, getCharacterFilePrefix(characterName)))

extractPersonaAssetName(fullFilename, personaName) ==
    StripExtension(StripPrefix(fullFilename, getPersonaFilePrefix(personaName)))

\* URLs are sequences of pieces whose leading "/" is a piece of its own.
UserImagesUrl(folder, fileName) == <<"/", "user/images/">> \o folder \o <<"/">> \o fileName
UserFilesUrl(fileName) == <<"/", "user/files/">> \o fileName

(***************************************************************************)
(* Asset sources                                                           *)
(***************************************************************************)
\* The entries /api/images/list yields for a folder: one per file with a
\* supported extension, in the order the server lists them.
ImagesApiEntries(folder, files) ==
    LET F[i \in 0..Len(files)] ==
            IF i = 0 THEN <<>>
            ELSE IF IsSupportedFormat(ExtensionOf(files[i]))
                 THEN Append(F[i - 1],
                        AssetRecord(BaseOf(files[i]), UserImagesUrl(folder, files[i]),
                                    files[i], NoValue, TRUE))
                 ELSE F[i - 1]
    IN  F[Len(files)]

\* The entries of the flat user/files listing that carry the scope's prefix.
FlatEntries(prefix, files, Extract(_)) ==
    LET F[i \in 0..Len(files)] ==
            IF i = 0 THEN <<>>
            ELSE IF StartsWith(files[i], prefix) /\ IsSupportedFormat(ExtensionOf(files[i]))
                 THEN Append(F[i - 1],
                        AssetRecord(Extract(files[i]), UserFilesUrl(files[i]),
                                    files[i], NoValue, FALSE))
                 ELSE F[i - 1]
    IN  F[Len(files)]

\* allAssets.push guarded by seenNames: the first entry of a name is kept.
DedupeByName(entries) ==
    LET F[i \in 0..Len(entries)] ==
            IF i = 0 THEN <<>>
            ELSE IF HasNamed(F[i - 1], entries[i].name) THEN F[i - 1]
                 ELSE Append(F[i - 1], entries[i])
    IN  F[Len(entries)]

\* getAssetUrl(characterName, assetFilename) with useImageDir = false.
getAssetUrl(characterName, assetFilename) ==
    IF StartsWith(assetFilename, <<"/">>) THEN assetFilename
    ELSE UserFilesUrl(
            IF StartsWith(assetFilename, getCharacterFilePrefix(characterName))
            THEN assetFilename
            ELSE getAssetFullFilename(characterName, assetFilename))

\* getAssetsFromMetadata: [ok, assets]; ok is FALSE when it throws
\* (getAssetUrl reads startsWith of an undefined filename).
getAssetsFromMetadata(characterName, fileAssets, legacyAssets) ==
    IF fileAssets # <<>>
    THEN IF \E i \in DOMAIN fileAssets :
                fileAssets[i].url = NoValue /\ fileAssets[i].filename = NoValue
         THEN [ok |-> FALSE, assets |-> <<>>]
         ELSE [ok |-> TRUE,
               assets |-> [i \in DOMAIN fileAssets |->
                   AssetRecord(fileAssets[i].name,
                               IF fileAssets[i].url # NoValue THEN fileAssets[i].url
                               ELSE getAssetUrl(characterName, fileAssets[i].filename),
                               fileAssets[i].filename, NoValue, FALSE)]]
    ELSE [ok |-> TRUE,
          assets |-> [i \in DOMAIN legacyAssets |->
              AssetRecord(legacyAssets[i].name, NoValue, NoValue,
                          legacyAssets[i].data, FALSE)]]

\* if (allAssets.length > 0) return allAssets; else the metadata fallback.
ListedOr(allAssets, fallback) ==
    IF allAssets # <<>> THEN [ok |-> TRUE, assets |-> allAssets] ELSE fallback

\* listCharacterImages.  imagesOk / flatOk: whether the images API and the
\* flat listing answered this call (each endpoint fails independently); the
\* /api/assets/character and ?folder= dialects are endpoints the modelled
\* server does not have, so they contribute nothing.
listCharacterImages(characterName, imagesOk, flatOk, imageFiles, flatFiles,
                    fileAssets, legacyAssets) ==
    ListedOr(DedupeByName(
                 (IF imagesOk THEN ImagesApiEntries(characterName, imageFiles) ELSE <<>>)
                 \o (IF flatOk
                     THEN FlatEntries(getCharacterFilePrefix(characterName), flatFiles,
                                      LAMBDA f : extractAssetName(f, characterName))
                     ELSE <<>>)),
             getAssetsFromMetadata(characterName, fileAssets, legacyAssets))

\* listPersonaImages: the flat listing filtered by the persona's prefix.
listPersonaImages(personaNm, flatOk, flatFiles) ==
    IF flatOk
    THEN DedupeByName(FlatEntries(getPersonaFilePrefix(personaNm), flatFiles,
                                  LAMBDA f : extractPersonaAssetName(f, personaNm)))
    ELSE <<>>

\* The probe's quick-test file names, and the first of the common expression
\* names it tries after the known names (the rest of the code's list names
\* files no modelled folder holds).
QuickTestNames ==
    << <<"1", ".", "p", "n", "g">>,
       <<"d", "e", "f", "a", "u", "l", "t", ".", "p", "n", "g">>,
       <<"s", "m", "i", "l", "e", ".", "p", "n", "g">>,
       <<"h", "a", "p", "p", "y", ".", "p", "n", "g">>,
       <<"n", "o", "r", "m", "a", "l", ".", "p", "n", "g">> >>
ProbeExpressions == << <<"s", "m", "i", "l", "e">>, <<"h", "a", "p", "p", "y">> >>

\* commonNames: every name with every supported format, in order.
ProbeFilenames(names) ==
    LET n == Len(SUPPORTED_FORMATS)
    IN  [k \in 1..(Len(names) * n) |->
            names[((k - 1) \div n) + 1] \o <<".">> \o SUPPORTED_FORMATS[((k - 1) % n) + 1]]

\* The HEAD probe: the first quick-test file that exists, then the existing
\* files among the known and common names, one entry per name.
ProbeEntries(folder, tried) ==
    DedupeByName([i \in DOMAIN tried |->
        AssetRecord(BaseOf(tried[i]), UserImagesUrl(folder, tried[i]),
                    tried[i], NoValue, TRUE)])
FirstOf(seq) == IF seq = <<>> THEN <<>> ELSE <<Head(seq)>>
ProbeUserImages(folder, knownNames, files) ==
    ProbeEntries(folder,
        FirstOf(SelectSeq(QuickTestNames, LAMBDA f : \E i \in DOMAIN files : files[i] = f))
        \o SelectSeq(ProbeFilenames(knownNames \o ProbeExpressions),
                     LAMBDA f : \E i \in DOMAIN files : files[i] = f))

\* scanUserImagesDirectory.  With the images API answering, its list is
\* trusted even when empty; otherwise the probe runs.
scanUserImagesDirectory(characterName, knownNames, imagesOk, imageFiles) ==
    IF imagesOk THEN ImagesApiEntries(characterName, imageFiles)
    ELSE ProbeUserImages(characterName, knownNames, imageFiles)

(***************************************************************************)
(* Resolution caches                                                       *)
(***************************************************************************)
\* fileUrlMap of buildAssetCache: filename, name, sanitized name and their
\* lowercase forms of every listed file, later entries overwriting.
MapSetIf(m, cond, k, v) == IF cond THEN MapSet(m, k, v) ELSE m
FileUrlPut(m, fa, sanitizedName) ==
    MapSetIf(MapSet(MapSetIf(MapSet(MapSet(m, fa.filename, fa.url), fa.name, fa.url),
                             sanitizedName # fa.name, sanitizedName, fa.url),
                    toLowerCase(fa.name), fa.url),
             sanitizedName # fa.name, toLowerCase(sanitizedName), fa.url)
FileUrlMap(allFileAssets) ==
    LET F[i \in 0..Len(allFileAssets)] ==
            IF i = 0 THEN <<>>
            ELSE IF allFileAssets[i].filename # NoValue /\ allFileAssets[i].url # NoValue
                 THEN FileUrlPut(F[i - 1], allFileAssets[i],
                                 sanitizeFilename(allFileAssets[i].name))
                 ELSE F[i - 1]
    IN  F[Len(allFileAssets)]

\* The location buildAssetCache picks for a registry record (priorities 1-5);
\* NoValue when none applies.
AssetUrlFor(asset, userImagesAssets, fileUrlMap) ==
    IF HasNamed(userImagesAssets, asset.name)
    THEN FindNamed(userImagesAssets, asset.name).url
    ELSE IF asset.url # NoValue
    THEN IF StartsWith(asset.url, <<"/">>) THEN asset.url ELSE <<"/">> \o asset.url
    ELSE IF asset.filename # NoValue
    THEN UserFilesUrl(asset.filename)
    ELSE IF MapHas(fileUrlMap, asset.name)
    THEN MapGet(fileUrlMap, asset.name)
    ELSE MapGet(fileUrlMap, sanitizeFilename(asset.name))

\* The keys one record with a location contributes: the name overwrites, the
\* sanitized, canonical and lowercase spellings only fill gaps.
MapSetIfAbsentIf(m, cond, k, v) == IF cond THEN MapSetIfAbsent(m, k, v) ELSE m
CacheFanOutKeys(cache, name, url, sanitizedName, canonicalKey) ==
    MapSetIfAbsent(
        MapSetIfAbsentIf(
            MapSetIfAbsentIf(MapSet(cache, name, url),
                             sanitizedName # name, sanitizedName, url),
            canonicalKey # name, canonicalKey, url),
        toLowerCase(name), url)
CacheFanOut(cache, name, url) ==
    CacheFanOutKeys(cache, name, url, sanitizeFilename(name), getCanonicalAssetKey(name))

\* Priority 6: a legacy record is cached under its name and sanitized name.
CacheLegacyKeys(cache, name, data, sanitizedName) ==
    MapSetIf(MapSet(cache, name, data), sanitizedName # name, sanitizedName, data)
CacheLegacy(cache, name, data) ==
    CacheLegacyKeys(cache, name, data, sanitizeFilename(name))

\* One registry record cached, given the location picked for it.
CacheAsset(cache, asset, url) ==
    IF asset.name = NoValue THEN cache
    ELSE IF url = NoValue /\ asset.data # NoValue
         THEN CacheLegacy(cache, asset.name, asset.data)
    ELSE IF url # NoValue THEN CacheFanOut(cache, asset.name, url)
    ELSE cache

\* One listed file cached when its name is not a key yet.
CacheFile(cache, fa) ==
    IF fa.name # NoValue /\ ~MapHas(cache, fa.name) /\ fa.url # NoValue
    THEN CacheFanOut(cache, fa.name, fa.url)
    ELSE cache

\* The Map buildAssetCache fills on a rebuild, given the fileUrlMap.
CacheFromSources(assets, allFileAssets, userImagesAssets, fileUrlMap) ==
    LET FromAssets[i \in 0..Len(assets)] ==
            IF i = 0 THEN <<>>
            ELSE CacheAsset(FromAssets[i - 1], assets[i],
                            AssetUrlFor(assets[i], userImagesAssets, fileUrlMap))
        FromFiles[i \in 0..Len(allFileAssets)] ==
            IF i = 0 THEN FromAssets[Len(assets)]
            ELSE CacheFile(FromFiles[i - 1], allFileAssets[i])
    IN  FromFiles[Len(allFileAssets)]

BuildAssetCacheMap(assets, fileSystemAssets, userImagesAssets) ==
    CacheFromSources(assets, fileSystemAssets \o userImagesAssets, userImagesAssets,
                     FileUrlMap(fileSystemAssets \o userImagesAssets))

\* fileUrlMap of buildPersonaAssetCache.
PersonaFileUrlPut(m, fa, sanitizedName) ==
    MapSet(MapSetIf(MapSet(MapSet(m, fa.filename, fa.url), fa.name, fa.url),
                    sanitizedName # fa.name, sanitizedName, fa.url),
           toLowerCase(fa.name), fa.url)
PersonaFileUrlMap(fileSystemAssets) ==
    LET F[i \in 0..Len(fileSystemAssets)] ==
            IF i = 0 THEN <<>>
            ELSE IF fileSystemAssets[i].filename # NoValue /\ fileSystemAssets[i].url # NoValue
                 THEN PersonaFileUrlPut(F[i - 1], fileSystemAssets[i],
                                        sanitizeFilename(fileSystemAssets[i].name))
                 ELSE F[i - 1]
    IN  F[Len(fileSystemAssets)]

\* The keys one persona record contributes: no canonical key here.
PersonaCacheFanOutKeys(cache, name, url, sanitizedName) ==
    MapSetIfAbsent(
        MapSetIfAbsentIf(MapSet(cache, name, url), sanitizedName # name, sanitizedName, url),
        toLowerCase(name), url)
PersonaCacheFanOut(cache, name, url) ==
    PersonaCacheFanOutKeys(cache, name, url, sanitizeFilename(name))

\* The location buildPersonaAssetCache picks for a persona record.
PersonaAssetUrlFor(asset, fileUrlMap) ==
    IF asset.url # NoValue THEN asset.url
    ELSE IF asset.filename # NoValue THEN UserFilesUrl(asset.filename)
    ELSE MapGet(fileUrlMap, asset.name)

PersonaCacheAsset(cache, asset, url) ==
    IF asset.name # NoValue /\ url # NoValue
    THEN PersonaCacheFanOut(cache, asset.name, url) ELSE cache

PersonaCacheFile(cache, fa) ==
    IF fa.name # NoValue /\ ~MapHas(cache, fa.name) /\ fa.url # NoValue
    THEN PersonaCacheFanOut(cache, fa.name, fa.url)
    ELSE cache

PersonaCacheFromSources(assets, fileSystemAssets, fileUrlMap) ==
    LET FromAssets[i \in 0..Len(assets)] ==
            IF i = 0 THEN <<>>
            ELSE PersonaCacheAsset(FromAssets[i - 1], assets[i],
                                   PersonaAssetUrlFor(assets[i], fileUrlMap))
        FromFiles[i \in 0..Len(fileSystemAssets)] ==
            IF i = 0 THEN FromAssets[Len(assets)]
            ELSE PersonaCacheFile(FromFiles[i - 1], fileSystemAssets[i])
    IN  FromFiles[Len(fileSystemAssets)]

\* The Map buildPersonaAssetCache fills on a rebuild.
BuildPersonaAssetCacheMap(assets, fileSystemAssets) ==
    PersonaCacheFromSources(assets, fileSystemAssets, PersonaFileUrlMap(fileSystemAssets))

(***************************************************************************)
(* Placeholder resolution                                                  *)
(***************************************************************************)
\* Message html is a sequence of tokens: literal text, a placeholder
\* %%img:NAME%% (a match of tagRegex, name = the captured group) or the
\* <img> markup a placeholder was replaced by (name = its alt, src = its src).
TextToken(chars) == [type |-> "text", name |-> chars, src |-> NoValue]
TagToken(assetName) == [type |-> "tag", name |-> assetName, src |-> NoValue]
ImgToken(alt, src) == [type |-> "img", name |-> alt, src |-> src]
\* '%%img:%%': text that includes '%%img:' and is no match of tagRegex.
UnmatchedTag == [type |-> "open", name |-> <<>>, src |-> NoValue]

\* html.includes('%%img:')
HasImgTag(html) == \E i \in DOMAIN html : html[i].type \in {"tag", "open"}

\* trimmedName.replace(/'/g, "\\'").replace(/"/g, '&quot;')
EscapeName(name) ==
    [i \in DOMAIN name |->
        IF name[i] = "'" THEN "\\'" ELSE IF name[i] = "\"" THEN "&quot;" ELSE name[i]]

\* candidates: the trimmed name, and the name without a supported extension.
CandidatesAt(trimmedName, lastDot) ==
    IF lastDot > 1 /\ lastDot < Len(trimmedName)
       /\ IsSupportedFormat(toLowerCase(SubSeq(trimmedName, lastDot + 1, Len(trimmedName))))
    THEN <<trimmedName, SubSeq(trimmedName, 1, lastDot - 1)>>
    ELSE <<trimmedName>>
Candidates(trimmedName) == CandidatesAt(trimmedName, LastDot(trimmedName))

\* The first candidate that is a key of the cache, looked up; else NoValue.
ExactLookup(cache, candidates) ==
    IF \E i \in DOMAIN candidates : MapHas(cache, candidates[i])
    THEN MapGet(cache, candidates[CHOOSE i \in DOMAIN candidates :
                    /\ MapHas(cache, candidates[i])
                    /\ \A j \in DOMAIN candidates : MapHas(cache, candidates[j]) => i <= j])
    ELSE NoValue

\* What a lookup found: the location, the tier that found it and the scope
\* of the cache it came from.
Hit(v, tier, scope) == [v |-> v, tier |-> tier, scope |-> scope]
Miss == Hit(NoValue, "none", "none")

\* cache.get(key), falling back to personaCache.get(key).
BothLookup(cache, personaCache, key, tier) ==
    IF MapHas(cache, key) THEN Hit(MapGet(cache, key), tier, "character")
    ELSE IF MapHas(personaCache, key) THEN Hit(MapGet(personaCache, key), tier, "persona")
    ELSE Miss

\* The first of two lookups that found something.
OrHit(first, second) == IF first.v # NoValue THEN first ELSE second

\* The sanitized-then-canonical loop, candidate by candidate.
SanitizedLookup(cache, personaCache, candidates) ==
    LET F[i \in 1..(Len(candidates) + 1)] ==
            IF i > Len(candidates) THEN Miss
            ELSE OrHit(BothLookup(cache, personaCache,
                                  sanitizeFilename(candidates[i]), "sanitized"),
                       OrHit(BothLookup(cache, personaCache,
                                        getCanonicalAssetKey(candidates[i]), "canonical"),
                             F[i + 1]))
    IN  F[1]

\* The first entry, in insertion order, whose key equals the name ignoring case.
ScanLookup(cache, lowerName) ==
    IF \E i \in DOMAIN cache : toLowerCase(cache[i].k) = lowerName
    THEN cache[CHOOSE i \in DOMAIN cache :
                  /\ toLowerCase(cache[i].k) = lowerName
                  /\ \A j \in DOMAIN cache : toLowerCase(cache[j].k) = lowerName => i <= j].v
    ELSE NoValue

\* A location as a hit of the given tier and scope, or a miss.
HitOrMiss(v, tier, scope) == IF v # NoValue THEN Hit(v, tier, scope) ELSE Miss

\* LookupCandidates without the sanitized, canonical and case-insensitive
\* tiers.
LookupExactOnly(trimmedName, candidates, cache, personaCache) ==
    OrHit(HitOrMiss(ExactLookup(cache, candidates), "exact", "character"),
          HitOrMiss(ExactLookup(personaCache, candidates), "exact", "persona"))

\* The tiers of the replace callback before the direct-URL guess: exact in
\* the character cache, exact in the persona cache, sanitized/canonical,
\* then the case-insensitive scan of the character and the persona cache.
LookupCandidates(trimmedName, candidates, cache, personaCache) ==
    OrHit(HitOrMiss(ExactLookup(cache, candidates), "exact", "character"),
    OrHit(HitOrMiss(ExactLookup(personaCache, candidates), "exact", "persona"),
    OrHit(SanitizedLookup(cache, personaCache, candidates),
    OrHit(HitOrMiss(ScanLookup(cache, toLowerCase(trimmedName)), "scan", "character"),
          HitOrMiss(ScanLookup(personaCache, toLowerCase(trimmedName)), "scan", "persona")))))

LookupTrace(assetName, cache, personaCache) ==
    LookupCandidates(trim(assetName), Candidates(trim(assetName)), cache, personaCache)

\* The location the caches hold for a placeholder name, NoValue on a miss.
CacheLookup(assetName, cache, personaCache) ==
    LookupTrace(assetName, cache, personaCache).v

\* The direct URL to user/images/ tried as a last resort when nothing was
\* found and the character has a name.
OrDirectUrl(assetSource, assetName, characterName) ==
    IF assetSource # NoValue THEN assetSource
    ELSE IF characterName # NoValue
         THEN UserImagesUrl(characterName, trim(assetName) \o <<".", "p", "n", "g">>)
         ELSE NoValue

\* assetSource of the replace callback.
ResolveTag(assetName, characterName, cache, personaCache) ==
    OrDirectUrl(CacheLookup(assetName, cache, personaCache), assetName, characterName)

\* What the replace callback returns for a placeholder: the <img> when it
\* has a source, else the match.
Replacement(token, assetSource) ==
    IF assetSource # NoValue THEN ImgToken(EscapeName(trim(token.name)), assetSource)
    ELSE token

\* html.replace(tagRegex, ...)
ReplaceTags(html, characterName, cache, personaCache) ==
    [i \in DOMAIN html |->
        IF html[i].type = "tag"
        THEN Replacement(html[i],
                         ResolveTag(html[i].name, characterName, cache, personaCache))
        ELSE html[i]]

(***************************************************************************)
(* Registry merge of the asset manager                                     *)
(***************************************************************************)
\* a || b on possibly missing values
OrElse(a, b) == IF a # NoValue THEN a ELSE b

\* getImageNameAndFormat for a file name with a supported extension:
\* [baseName, fullFilename].
getImageNameAndFormat(originalFilename) ==
    LET rawName == trim(originalFilename)
        lastDot == LastDot(rawName)
        split   == lastDot > 1 /\ lastDot < Len(rawName)
        base    == IF split THEN SubSeq(rawName, 1, lastDot - 1) ELSE rawName
        ext     == IF split THEN toLowerCase(SubSeq(rawName, lastDot + 1, Len(rawName)))
                            ELSE <<>>
        jpg     == IF ext = <<"j", "p", "e", "g">> THEN <<"j", "p", "g">> ELSE ext
        format  == IF IsSupportedFormat(jpg) THEN jpg ELSE <<"p", "n", "g">>
        baseName == sanitizeImageBaseName(base)
    IN  [baseName |-> baseName, fullFilename |-> baseName \o <<".">> \o format]

\* upsertAsset: merge into assetMap (canonicalKey -> asset, insertion order).
\* The first record of a key keeps its name; a later one fills the location,
\* and overrides it when it comes from user/images.
UpsertMerged(existing, incoming, isHighestPriorityUrl) ==
    [name       |-> existing.name,
     url        |-> IF isHighestPriorityUrl
                    THEN OrElse(incoming.url, existing.url)
                    ELSE OrElse(existing.url, incoming.url),
     filename   |-> OrElse(incoming.filename, existing.filename),
     data       |-> OrElse(incoming.data, existing.data),
     isImageDir |-> existing.isImageDir \/ incoming.isImageDir]
UpsertAt(assetMap, key, incoming, isHighestPriorityUrl) ==
    IF ~MapHas(assetMap, key) THEN MapSet(assetMap, key, incoming)
    ELSE MapSet(assetMap, key,
                UpsertMerged(MapGet(assetMap, key), incoming, isHighestPriorityUrl))
upsertAsset(assetMap, incoming, isHighestPriorityUrl) ==
    UpsertAt(assetMap, getCanonicalAssetKey(incoming.name), incoming, isHighestPriorityUrl)

UpsertAll(assetMap, incomings, isHighestPriorityUrl) ==
    LET F[i \in 0..Len(incomings)] ==
            IF i = 0 THEN assetMap
            ELSE upsertAsset(F[i - 1], incomings[i], isHighestPriorityUrl)
    IN  F[Len(incomings)]

MapValues(m) == [i \in DOMAIN m |-> m[i].v]

\* The merged list initializeAssetList displays: metadata, then the
\* user/files listing, then the user/images listing.
MergedAssets(assets, fileAssets, userImagesAssets) ==
    MapValues(UpsertAll(UpsertAll(UpsertAll(<<>>, assets, FALSE), fileAssets, FALSE),
                        userImagesAssets, TRUE))

\* byKey after the registry's own records: the first record of a canonical
\* key is kept, later ones only fill its missing location.
DedupeMerged(existing, a) ==
    [name       |-> existing.name,
     url        |-> OrElse(existing.url, a.url),
     filename   |-> OrElse(existing.filename, a.filename),
     data       |-> existing.data,
     isImageDir |-> existing.isImageDir \/ a.isImageDir]
DedupeAt(byKey, key, a) ==
    IF ~MapHas(byKey, key) THEN MapSet(byKey, key, a)
    ELSE MapSet(byKey, key, DedupeMerged(MapGet(byKey, key), a))
DedupeRegistry(rawAssetsBefore) ==
    LET F[i \in 0..Len(rawAssetsBefore)] ==
            IF i = 0 THEN <<>>
            ELSE DedupeAt(F[i - 1], getCanonicalAssetKey(rawAssetsBefore[i].name),
                          rawAssetsBefore[i])
    IN  F[Len(rawAssetsBefore)]

\* One merged asset synced into byKey: a new key is added when it has a
\* location, a known key takes the merged location.
SyncMerged(existing, a) ==
    [name       |-> existing.name,
     url        |-> OrElse(a.url, existing.url),
     filename   |-> OrElse(a.filename, existing.filename),
     data       |-> existing.data,
     isImageDir |-> existing.isImageDir \/ a.isImageDir]
SyncAt(byKey, key, a) ==
    IF trim(a.name) = <<>> THEN byKey
    ELSE IF ~MapHas(byKey, key)
    THEN IF a.url # NoValue \/ a.filename # NoValue
         THEN MapSet(byKey, key,
                     AssetRecord(a.name, a.url, a.filename, NoValue, a.isImageDir))
         ELSE byKey
    ELSE MapSet(byKey, key, SyncMerged(MapGet(byKey, key), a))
SyncOne(byKey, a) == SyncAt(byKey, getCanonicalAssetKey(a.name), a)

\* The registry the auto-sync of initializeAssetList arrives at; it is
\* saved when it differs from the registry read (the code's `changed`).
SyncedRegistry(rawAssetsBefore, merged) ==
    LET F[i \in 0..Len(merged)] ==
            IF i = 0 THEN DedupeRegistry(rawAssetsBefore)
            ELSE SyncOne(F[i - 1], merged[i])
    IN  MapValues(F[Len(merged)])

(***************************************************************************)
(* State                                                                   *)
(***************************************************************************)
VARIABLES
    characters,             \* context.characters: name and the two extension fields
    characterId,            \* context.characterId (an index of characters)
    name1,                  \* context.name1, the current persona's name
    personas,               \* extensionSettings.inlineImageAssets.personas
    userImages,             \* server: the files of user/images/<folder>/
    userFiles,              \* server: the files of the flat user/files/ store
    imagesApi,              \* server: whether the build has /api/images/*
    assetCache,
    cachedCharacterId,
    personaAssetCache,
    cachedPersonaName,
    isAssetRenderingActive,
    chat,                   \* #chat: the html of each .mes element
    chatObserver,           \* whether the MutationObserver is connected
    mutationBatch,          \* the messages of the batched mutations
    mutationTimeout,        \* whether the 50 ms mutation timer is pending
    renderQueue,
    isRenderScheduled,      \* also: an idle callback is pending
    processedMessages,
    noImageTagMessages,
    updateTimer,            \* pending updateAssetRenderingState timers
    resolved,               \* history: the last text resolved and its output
    uploadReport,           \* history: the counts the last batch upload reported
    deleteReport,           \* history: the counts the last batch delete reported
    cachedCsrfToken,        \* the CSRF token held (0: none)
    csrfDisabled,           \* the server said it issues no CSRF tokens
    call,                   \* the upload or delete call in progress, with its position
    requestLog,             \* history: the requests the last call sent, with their answers
    callResult,             \* what the last call returned ("none" while it runs)
    lastBuild,              \* history: the sources that failed when the cache was built
    promptNames,            \* the names handed to compressAssetNames
    compressed,             \* the entries compressAssetNames made of them
    extensionDir,           \* backend: the platform and EXTENSION_DIR
    requestPath,            \* backend: the path or dir parameter of the request
    pathResult,             \* backend: what the route's path check gave
    isScrolling,
    scrollTimeout,          \* whether the SCROLL_THROTTLE timer is pending
    visibilityObserver,     \* whether the IntersectionObserver exists
    idleCallbacks,          \* requestIdleCallback callbacks of scheduleRender pending
    ticks,                  \* the processBatchRender calls awaiting a cache build
    lastLoop,               \* history: what the render loop just run dequeued, and for whom
    queueAtScroll,          \* history: the containers queued when the scroll events came,
                            \* forgotten when the scope is switched
    scrollStop,             \* history: what the scroll-stop timer just fired found and left
    cacheEvent,             \* history: the event just handled, as the caches see it
    rendering,              \* the .mes elements whose dataset.rendering is set
    enqueueTimes,           \* history: for each element of renderQueue, when it was pushed
    clock,                  \* history: the pushes onto renderQueue so far
    lastPassed,             \* history: the push time of the last element handed to renderMessageFast
    lastTick,               \* history: what the processBatchRender call just ended did
    scan,                   \* the scanUserImagesDirectory call: its server and its position
    testedUrls,
    inFlight,               \* the URLs whose HEAD request is not yet answered
    headRequests,           \* history: the URLs of the HEAD requests sent, in order
    lruMap,                 \* backend: fileBufferCache.map, oldest entry first
    totalBytes,             \* backend: fileBufferCache.totalBytes
    lruCall,                \* history: the last call on fileBufferCache, and the cache before it
    observing,              \* the .mes elements the IntersectionObserver observes
    inView,                 \* browser: the .mes elements intersecting the chat's viewport
    operation,              \* the popup handler that awaits its backend requests
    lastInvalidate          \* history: where the handler stood at its last invalidateAssetCache()

hostVars   == <<characters, characterId, name1, personas>>
serverVars == <<userImages, userFiles, imagesApi>>
charCacheVars    == <<assetCache, cachedCharacterId>>
personaCacheVars == <<personaAssetCache, cachedPersonaName>>
domVars    == <<chat, chatObserver, mutationBatch, mutationTimeout>>
queueVars  == <<renderQueue, isRenderScheduled, processedMessages, noImageTagMessages>>
vars == <<characters, characterId, name1, personas, userImages, userFiles, imagesApi,
          assetCache, cachedCharacterId, personaAssetCache, cachedPersonaName,
          isAssetRenderingActive, chat, chatObserver, mutationBatch, mutationTimeout,
          renderQueue, isRenderScheduled, processedMessages, noImageTagMessages,
          updateTimer, resolved, uploadReport, deleteReport,
          cachedCsrfToken, csrfDisabled, call, requestLog, callResult, lastBuild,
          promptNames, compressed, extensionDir, requestPath, pathResult,
          isScrolling, scrollTimeout, visibilityObserver, idleCallbacks, ticks,
          lastLoop, queueAtScroll, scrollStop,
          cacheEvent, rendering, enqueueTimes, clock, lastPassed, lastTick,
          scan, testedUrls, inFlight, headRequests,
          lruMap, totalBytes, lruCall, observing, inView, operation, lastInvalidate>>

\* The variables of the extension's rendering and registries.
vars0 == <<hostVars, serverVars, charCacheVars, personaCacheVars,
           isAssetRenderingActive, domVars, queueVars, updateTimer, resolved>>

\* The variables of the batch handlers' reports; the handlers of the other
\* specifications leave them alone.
batchVars == <<uploadReport, deleteReport>>
requestVars == <<cachedCsrfToken, csrfDisabled, call, requestLog, callResult>>
buildVars == <<lastBuild>>
promptVars == <<promptNames, compressed>>
backendVars == <<extensionDir, requestPath, pathResult>>
tickVars == <<isScrolling, scrollTimeout, visibilityObserver, idleCallbacks, ticks,
              lastLoop, queueAtScroll, scrollStop>>
cacheEventVars == <<cacheEvent>>
loopVars == <<rendering, enqueueTimes, clock, lastPassed, lastTick>>
probeVars == <<scan, testedUrls, inFlight, headRequests>>
lruVars == <<lruMap, totalBytes, lruCall>>
viewVars == <<observing, inView>>
opVars == <<operation, lastInvalidate>>
extVars == <<cacheEventVars, loopVars, probeVars, lruVars, viewVars, opVars>>
auxVars == <<batchVars, requestVars, buildVars, promptVars, backendVars, tickVars, extVars>>
notBatchVars == <<requestVars, buildVars, promptVars, backendVars, tickVars, extVars>>
notRequestVars == <<vars0, batchVars, buildVars, promptVars, backendVars, tickVars, extVars>>
notBuildVars == <<batchVars, requestVars, promptVars, backendVars, tickVars, extVars>>
notPromptVars == <<vars0, batchVars, requestVars, buildVars, backendVars, tickVars, extVars>>
notBackendVars == <<vars0, batchVars, requestVars, buildVars, promptVars, tickVars, extVars>>
notTickVars == <<batchVars, requestVars, buildVars, promptVars, backendVars, extVars>>
notCacheEventVars == <<batchVars, requestVars, buildVars, promptVars, backendVars, tickVars,
                       loopVars, probeVars, lruVars, viewVars, opVars>>
notLoopVars == <<batchVars, requestVars, buildVars, promptVars, backendVars, cacheEventVars,
                 probeVars, lruVars, viewVars, opVars>>
notProbeVars == <<vars0, batchVars, requestVars, buildVars, promptVars, backendVars, tickVars,
                  cacheEventVars, loopVars, lruVars, viewVars, opVars>>
notLruVars == <<vars0, batchVars, requestVars, buildVars, promptVars, backendVars, tickVars,
                cacheEventVars, loopVars, probeVars, viewVars, opVars>>
notViewVars == <<batchVars, requestVars, buildVars, promptVars, backendVars,
                 cacheEventVars, loopVars, probeVars, lruVars, opVars>>
notOpVars == <<batchVars, requestVars, buildVars, promptVars, backendVars, tickVars,
               cacheEventVars, loopVars, probeVars, lruVars, viewVars>>
BatchInit == uploadReport = NoValue /\ deleteReport = NoValue
RequestInit ==
    /\ cachedCsrfToken = 0
    /\ csrfDisabled = FALSE
    /\ call = NoValue
    /\ requestLog = <<>>
    /\ callResult = "none"
BuildInit == lastBuild = NoValue
PromptInit == promptNames = <<>> /\ compressed = <<>>
\* EXTENSION_DIR on a POSIX host: /st/ext.
PosixDir == [win32 |-> FALSE, device |-> <<>>,
             segments |-> << <<"s", "t">>, <<"e", "x", "t">> >>]
BackendInit ==
    /\ extensionDir = PosixDir
    /\ requestPath = <<>>
    /\ pathResult = [code |-> "pending"]
TickInit ==
    /\ isScrolling = FALSE
    /\ scrollTimeout = FALSE
    /\ visibilityObserver = FALSE
    /\ idleCallbacks = 0
    /\ ticks = <<>>
    /\ lastLoop = NoValue
    /\ queueAtScroll = {}
    /\ scrollStop = NoValue
CacheEventInit == cacheEvent = NoValue
LoopInit ==
    /\ rendering = {}
    /\ enqueueTimes = <<>>
    /\ clock = 0
    /\ lastPassed = 0
    /\ lastTick = NoValue
ProbeInit ==
    /\ scan = NoValue
    /\ testedUrls = {}
    /\ inFlight = {}
    /\ headRequests = <<>>
LruInit ==
    /\ lruMap = <<>>
    /\ totalBytes = 0
    /\ lruCall = NoValue
ViewInit ==
    /\ observing = {}
    /\ inView = {}
OpInit == operation = NoValue /\ lastInvalidate = NoValue
ExtInit == CacheEventInit /\ LoopInit /\ ProbeInit /\ LruInit /\ ViewInit /\ OpInit
AuxInit ==
    BatchInit /\ RequestInit /\ BuildInit /\ PromptInit /\ BackendInit /\ TickInit
    /\ ExtInit

\* cachedCharacterId = null
NoId == 0

(***************************************************************************)
(* Names, files and texts of the modelled world                            *)
(***************************************************************************)
Ann == <<"A", "n", "n">>
Bob == <<"B", "o", "b">>
Usr == <<"U", "s", "r">>
CharacterNames == {Ann, Bob}
PersonaNames == {Usr}

Png == <<".", "p", "n", "g">>
smile == <<"s", "m", "i", "l", "e">>
Smile == <<"S", "m", "i", "l", "e">>
frown == <<"f", "r", "o", "w", "n">>
wave  == <<"w", "a", "v", "e">>
a_b   == <<"a", "_", "b">>
aSpaceB == <<"a", " ", "b">>

\* A record added with the manual path dialog: base path "/a".
ManualBasePath == <<"/", "a">>
ManualUrl(filename) == ManualBasePath \o <<"/">> \o filename
\* A legacy record's inline base64 data.
InlineData == <<"data:image/png;base64,", "AAAA">>

\* A character of context.characters.  aliased: the legacy field is the very
\* array saved as inline_image_assets (saveAssets was given the array
\* getAssetsRaw returned from the legacy field).
Character(name, assets, legacy) ==
    [name |-> name, inline_image_assets |-> assets,
     inline_image_assets_b64 |-> legacy, aliased |-> FALSE]

LegacyOf(character) ==
    IF character.aliased THEN character.inline_image_assets
    ELSE character.inline_image_assets_b64

getAssetsRaw(character) ==
    IF character.inline_image_assets # <<>> THEN character.inline_image_assets
    ELSE LegacyOf(character)

getPersonaAssetsRaw(personaName) ==
    IF personaName = NoValue THEN <<>> ELSE personas[personaName]

\* saveAssets of an array built by the handler.
SaveNew(character, newAssets) ==
    [character EXCEPT !.inline_image_assets = newAssets,
                      !.inline_image_assets_b64 = LegacyOf(character),
                      !.aliased = FALSE]

\* saveAssets of the array getAssetsRaw returned, after the handler changed
\* it in place (splice, push, a record's name).
SaveInPlace(character, newAssets) ==
    IF character.inline_image_assets # <<>>
    THEN [character EXCEPT !.inline_image_assets = newAssets]
    ELSE IF LegacyOf(character) # <<>>
    THEN [character EXCEPT !.inline_image_assets = newAssets,
                           !.inline_image_assets_b64 = <<>>,
                           !.aliased = TRUE]
    ELSE [character EXCEPT !.inline_image_assets = newAssets,
                           !.inline_image_assets_b64 = <<>>,
                           !.aliased = FALSE]

clearLegacyAssets(character) ==
    IF character.aliased
    THEN [character EXCEPT !.inline_image_assets_b64 = <<>>, !.aliased = FALSE]
    ELSE [character EXCEPT !.inline_image_assets_b64 = <<>>]

Names(assets) == [i \in DOMAIN assets |-> assets[i].name]
IsLegacyRecord(asset) == asset.data # NoValue

(***************************************************************************)
(* Bounds                                                                  *)
(***************************************************************************)
MaxAssets == 2      \* records a registry may grow to through the dialogs
MaxMessages == 1    \* .mes elements in #chat
MaxTimers == 1      \* updateAssetRenderingState timers pending at once

(***************************************************************************)
(* Server and cache steps shared by the handlers                           *)
(***************************************************************************)
\* The server lists a folder in the order of the file names' character codes.
CodeOrder == <<" ", "-", ".">> \o <<"0","1","2","3","4","5","6","7","8","9">>
             \o UpperLetters \o <<"_">> \o LowerLetters \o <<"É", "é">>
CharCode(c) == CHOOSE i \in DOMAIN CodeOrder : CodeOrder[i] = c
RECURSIVE Before(_, _)
Before(a, b) ==
    IF a = <<>> THEN b # <<>>
    ELSE IF b = <<>> THEN FALSE
    ELSE IF Head(a) = Head(b) THEN Before(Tail(a), Tail(b))
    ELSE CharCode(Head(a)) < CharCode(Head(b))
AddFile(files, f) ==
    IF \E i \in DOMAIN files : files[i] = f THEN files
    ELSE SelectSeq(files, LAMBDA g : Before(g, f)) \o <<f>>
         \o SelectSeq(files, LAMBDA g : Before(f, g))
RemoveFile(files, f) == SelectSeq(files, LAMBDA g : g # f)
RemoveAt(seq, index) == SelectSeqIdx(seq, LAMBDA i : i # index)

\* saveImageFile: what the upload stores and returns.  A build with the
\* images API stores <baseName>.<format> in the character's folder; an older
\* build answers 404 and the file goes to the flat store under the prefix.
SavedToImages(characterName, nf) ==
    [store |-> "images", file |-> nf.fullFilename,
     asset |-> AssetRecord(nf.baseName, UserImagesUrl(characterName, nf.fullFilename),
                           nf.fullFilename, NoValue, TRUE)]
SavedToFiles(characterName, legacyFullFilename) ==
    [store |-> "files", file |-> legacyFullFilename,
     asset |-> AssetRecord(extractAssetName(legacyFullFilename, characterName),
                           UserFilesUrl(legacyFullFilename),
                           legacyFullFilename, NoValue, FALSE)]
LegacyFullFilename(characterName, sanitizedFilename) ==
    IF StartsWith(sanitizedFilename, IMAGE_PREFIX) THEN sanitizedFilename
    ELSE getAssetFullFilename(characterName, sanitizedFilename)
saveImageFile(characterName, filename) ==
    IF imagesApi
    THEN SavedToImages(characterName, getImageNameAndFormat(filename))
    ELSE SavedToFiles(characterName,
                      LegacyFullFilename(characterName, sanitizePathSegment(filename)))

\* The server's files after a saveImageFile.
ImagesAfterSave(images, characterName, saved) ==
    IF saved.store = "images"
    THEN [images EXCEPT ![characterName] = AddFile(@, saved.file)] ELSE images
FilesAfterSave(files, saved) ==
    IF saved.store = "files" THEN AddFile(files, saved.file) ELSE files

\* deleteImageFile called with a file name: the flat store's delete.
FilesAfterDelete(files, characterName, filename) ==
    RemoveFile(files,
        IF StartsWith(filename, getCharacterFilePrefix(characterName)) THEN filename
        ELSE getAssetFullFilename(characterName, filename))

\* The end of initializeAssetList: the registry is saved when the auto-sync
\* of the merged list changed it.
SavedIfSynced(character, raw, synced) ==
    IF synced # raw THEN SaveNew(character, synced) ELSE character
SavedIfChanged(character, raw, listing, scanned) ==
    IF listing.ok
    THEN SavedIfSynced(character, raw,
                       SyncedRegistry(raw, MergedAssets(raw, listing.assets, scanned)))
    ELSE character

\* initializeAssetList on a character, with the server's files as given:
\* the character it leaves (saved when the auto-sync changed the registry).
\* When the listing throws, the handler stops before the auto-sync.
AfterAssetList(character, images, files) ==
    SavedIfChanged(character, getAssetsRaw(character),
        listCharacterImages(character.name, imagesApi, TRUE,
                            images[character.name], files,
                            character.inline_image_assets, LegacyOf(character)),
        scanUserImagesDirectory(character.name, Names(getAssetsRaw(character)),
                                imagesApi, images[character.name]))

\* invalidateAssetCache that forgets to clear the Map and its marker.
InvalidateKeepsCache ==
    /\ isAssetRenderingActive' = FALSE
    /\ UNCHANGED <<charCacheVars, personaCacheVars>>

\* invalidateAssetCache that clears the persona cache as well.
InvalidateBothCaches ==
    /\ assetCache' = <<>>
    /\ cachedCharacterId' = NoId
    /\ isAssetRenderingActive' = FALSE
    /\ personaAssetCache' = <<>>
    /\ cachedPersonaName' = NoValue

\* invalidateAssetCache: the character cache and its marker are cleared and
\* rendering is switched off; the persona cache is not touched.
InvalidateAssetCache ==
    /\ assetCache' = <<>>
    /\ cachedCharacterId' = NoId
    /\ isAssetRenderingActive' = FALSE
    /\ UNCHANGED personaCacheVars

\* invalidatePersonaAssetCache: only the persona cache and its marker.
InvalidatePersonaAssetCache ==
    /\ personaAssetCache' = <<>>
    /\ cachedPersonaName' = NoValue
    /\ UNCHANGED <<charCacheVars, isAssetRenderingActive>>

\* A popup handler that saved the current character's registry and then
\* refreshed the list: the registry is written, the character cache is
\* invalidated, nothing of the persona scope or of the chat is touched.
CharacterWrite(character, images, files) ==
    /\ characters' = [characters EXCEPT
                        ![characterId] = AfterAssetList(character, images, files)]
    /\ userImages' = images
    /\ userFiles' = files
    /\ InvalidateAssetCache
    /\ resolved' = NoValue
    /\ UNCHANGED <<characterId, name1, personas, imagesApi,
                   domVars, queueVars, updateTimer>>

(***************************************************************************)
(* Asset manager popup of the current character                            *)
(***************************************************************************)
\* The files offered to the upload dialogs, the names typed into a name
\* field, and the file names entered in the manual path dialog.
UploadFiles == { aSpaceB \o Png }
TypedNames == { Smile }
ManualFilenames == { wave \o Png }
PlacedFiles == { aSpaceB \o Png }

CurrentCharacter == characters[characterId]

\* handleFileUpload of one file.  A file whose name (without extension) is a
\* registered name is skipped; uploadOk: whether the upload request
\* succeeded.  The list is refreshed in every case.
Uploaded(character, assets, saved) ==
    CharacterWrite(SaveNew(character, Append(assets, saved.asset)),
                   ImagesAfterSave(userImages, character.name, saved),
                   FilesAfterSave(userFiles, saved))
HandleFileUpload(file, uploadOk) ==
    /\ Len(getAssetsRaw(CurrentCharacter)) < MaxAssets
    /\ IF ~HasNamed(getAssetsRaw(CurrentCharacter), BaseOf(file)) /\ uploadOk
       THEN Uploaded(CurrentCharacter, getAssetsRaw(CurrentCharacter),
                     saveImageFile(CurrentCharacter.name, file))
       ELSE \* nothing uploaded: only initializeAssetList runs
            /\ AfterAssetList(CurrentCharacter, userImages, userFiles) # CurrentCharacter
            /\ CharacterWrite(CurrentCharacter, userImages, userFiles)

\* The "manual" import dialog: a record pointing at basePath/filename.
ManualImport(filename) ==
    LET character == CurrentCharacter
        assets    == getAssetsRaw(character)
        assetName == IF LastDot(filename) > 1 THEN BaseOf(filename) ELSE filename
    IN  /\ Len(assets) < MaxAssets
        /\ ~HasNamed(assets, assetName)
        /\ CharacterWrite(
               SaveInPlace(character,
                   Append(assets, AssetRecord(assetName, ManualUrl(filename), filename,
                                              NoValue, FALSE))),
               userImages, userFiles)

\* The "userImages" import: the scanned files with an unregistered name are
\* registered.
ImportUserImages ==
    LET character == CurrentCharacter
        assets    == getAssetsRaw(character)
        scanned   == scanUserImagesDirectory(character.name, <<>>, imagesApi,
                                             userImages[character.name])
        newAssets == SelectSeq(scanned, LAMBDA a : ~HasNamed(assets, a.name))
    IN  /\ newAssets # <<>>
        /\ Len(assets) + Len(newAssets) <= MaxAssets
        /\ CharacterWrite(SaveNew(character, assets \o newAssets), userImages, userFiles)

\* The name field's change handler: the new name is trimmed, must not be
\* empty and must not be another record's name; the record is renamed in
\* place and the registry saved.  The list is not refreshed.
NameChange(index, typed) ==
    LET character == CurrentCharacter
        assets    == getAssetsRaw(character)
        newName   == trim(typed)
    IN  /\ index \in DOMAIN assets
        /\ newName # <<>>
        /\ ~\E i \in DOMAIN assets : i # index /\ assets[i].name = newName
        /\ characters' = [characters EXCEPT ![characterId] =
                SaveInPlace(character, [assets EXCEPT ![index].name = newName])]
        /\ InvalidateAssetCache
        /\ resolved' = NoValue
        /\ UNCHANGED <<characterId, name1, personas, serverVars,
                       domVars, queueVars, updateTimer>>

\* The delete button of one record: its flat file is deleted, the record is
\* spliced out in place, the registry saved and the list refreshed.
DeleteAsset(index) ==
    LET character == CurrentCharacter
        assets    == getAssetsRaw(character)
        asset     == assets[index]
        remaining == RemoveAt(assets, index)
        saved     == SaveInPlace(character, remaining)
        cleared   == IF IsLegacyRecord(asset)
                        /\ ~\E i \in DOMAIN remaining : IsLegacyRecord(remaining[i])
                     THEN clearLegacyAssets(saved) ELSE saved
    IN  /\ index \in DOMAIN assets
        /\ CharacterWrite(cleared, userImages,
               IF asset.filename # NoValue /\ ~IsLegacyRecord(asset)
               THEN FilesAfterDelete(userFiles, character.name, asset.filename)
               ELSE userFiles)

\* The refresh button: initializeAssetList, which saves only when its
\* auto-sync changed the registry.
RefreshAssets ==
    LET listed == AfterAssetList(CurrentCharacter, userImages, userFiles)
    IN  /\ listed # CurrentCharacter
        /\ CharacterWrite(CurrentCharacter, userImages, userFiles)

\* The "Migrate now" link: every legacy record is uploaded as a file and
\* replaced by a file record of the same name; the legacy field is cleared.
MigrateLegacy ==
    LET character == CurrentCharacter
        assets    == getAssetsRaw(character)
        IsLegacyAt(i) == IsLegacyRecord(assets[i])
        Saved(i)  == saveImageFile(character.name, sanitizeFilename(assets[i].name) \o Png)
        migrated  == [i \in DOMAIN assets |->
                        AssetRecord(assets[i].name, Saved(i).asset.url,
                                    Saved(i).asset.filename, NoValue, FALSE)]
        F[i \in 0..Len(assets)] ==
            IF i = 0 THEN [images |-> userImages, files |-> userFiles]
            ELSE IF IsLegacyAt(i)
                 THEN [images |-> ImagesAfterSave(F[i - 1].images, character.name, Saved(i)),
                       files  |-> FilesAfterSave(F[i - 1].files, Saved(i))]
                 ELSE F[i - 1]
    IN  /\ \E i \in DOMAIN assets : IsLegacyAt(i)
        /\ CharacterWrite(
               clearLegacyAssets(SaveNew(character,
                   SelectSeqIdx(assets, LAMBDA i : ~IsLegacyAt(i))
                   \o SelectSeqIdx(migrated, IsLegacyAt))),
               F[Len(assets)].images, F[Len(assets)].files)

(***************************************************************************)
(* Persona asset manager popup                                             *)
(***************************************************************************)
PersonaUploadFiles == { Smile \o Png }
PersonaTypedNames == { a_b \o Png }

\* savePersonaImageFile: the flat store under the persona's prefix.
PersonaFullFilename(personaName, sanitizedFilename) ==
    IF StartsWith(sanitizedFilename, PERSONA_PREFIX) THEN sanitizedFilename
    ELSE getPersonaAssetFullFilename(personaName, sanitizedFilename)
SavedToPersonaFiles(personaName, fullFilename) ==
    [file  |-> fullFilename,
     asset |-> AssetRecord(extractPersonaAssetName(fullFilename, personaName),
                           UserFilesUrl(fullFilename), fullFilename, NoValue, FALSE)]
savePersonaImageFile(personaName, filename) ==
    SavedToPersonaFiles(personaName,
                        PersonaFullFilename(personaName, sanitizePathSegment(filename)))

\* savePersonaAssets, with the files the handler left on the server: the
\* persona's registry is written and the persona cache invalidated.
PersonaWrite(personaName, assets, files) ==
    /\ personas' = [personas EXCEPT ![personaName] = assets]
    /\ userFiles' = files
    /\ InvalidatePersonaAssetCache
    /\ resolved' = NoValue
    /\ UNCHANGED <<characters, characterId, name1, userImages, imagesApi,
                   domVars, queueVars, updateTimer>>

\* handlePersonaFileUpload of one file that uploads successfully.
HandlePersonaFileUpload(file) ==
    LET assets == getPersonaAssetsRaw(name1)
        saved  == savePersonaImageFile(name1, file)
    IN  /\ name1 # NoValue
        /\ Len(assets) < MaxAssets
        /\ ~HasNamed(assets, BaseOf(file))
        /\ PersonaWrite(name1, Append(assets, saved.asset), AddFile(userFiles, saved.file))

\* The persona popup's name change handler.
PersonaNameChange(index, typed) ==
    LET assets  == getPersonaAssetsRaw(name1)
        newName == trim(typed)
    IN  /\ name1 # NoValue
        /\ index \in DOMAIN assets
        /\ newName # <<>>
        /\ ~\E i \in DOMAIN assets : i # index /\ assets[i].name = newName
        /\ PersonaWrite(name1, [assets EXCEPT ![index].name = newName], userFiles)

\* The persona popup's delete button.
PersonaDeleteAsset(index) ==
    LET assets == getPersonaAssetsRaw(name1)
        filename == assets[index].filename
        fullFilename ==
            IF StartsWith(filename, getPersonaFilePrefix(name1)) THEN filename
            ELSE getPersonaAssetFullFilename(name1, filename)
    IN  /\ name1 # NoValue
        /\ index \in DOMAIN assets
        /\ PersonaWrite(name1, RemoveAt(assets, index),
               IF filename # NoValue THEN RemoveFile(userFiles, fullFilename)
               ELSE userFiles)

(***************************************************************************)
(* Environment                                                             *)
(***************************************************************************)
\* The user copies an image into the current character's user/images folder.
PlaceImageFile(file) ==
    /\ ~\E i \in DOMAIN userImages[CurrentCharacter.name] :
            userImages[CurrentCharacter.name][i] = file
    /\ userImages' = [userImages EXCEPT ![CurrentCharacter.name] = AddFile(@, file)]
    /\ resolved' = NoValue
    /\ UNCHANGED <<hostVars, userFiles, imagesApi, charCacheVars, personaCacheVars,
                   isAssetRenderingActive, domVars, queueVars, updateTimer>>

\* The host is updated to a build that has the images API.
ServerUpgraded ==
    /\ ~imagesApi
    /\ imagesApi' = TRUE
    /\ resolved' = NoValue
    /\ UNCHANGED <<hostVars, userImages, userFiles, charCacheVars, personaCacheVars,
                   isAssetRenderingActive, domVars, queueVars, updateTimer>>

(***************************************************************************)
(* Chat, events and timers                                                 *)
(***************************************************************************)
BATCH_SIZE == 8

\* The message texts that arrive in the chat.
Text1 == <<TextToken(<<"h", "i", " ">>), TagToken(Smile), TextToken(<<" ">>), TagToken(frown)>>
Text2 == <<TagToken(wave), TagToken(aSpaceB \o Png)>>
Texts == {Text1, Text2}

Mes(html) == [html |-> html]
Mutation(mes, added) == [mes |-> mes, added |-> added]
InSeq(seq, x) == \E i \in DOMAIN seq : seq[i] = x

\* The MutationObserver callback for one mutation: it is dropped while the
\* observer is disconnected or rendering is off, else batched and the 50 ms
\* timer (re)started.  active: isAssetRenderingActive when it runs.
Observed(batch, timeout, mutation, active) ==
    IF chatObserver /\ active
    THEN [batch |-> Append(batch, mutation), timeout |-> TRUE]
    ELSE [batch |-> batch, timeout |-> timeout]

\* queueMessageForRender / queueMessageForRenderForce for each of msgs, with
\* rendering active: a message not yet queued is pushed and scheduleRender
\* called.
PushedAlways(queue, m) == Append(queue, m)
PushedUnlessQueued(queue, m) == IF InSeq(queue, m) THEN queue ELSE Append(queue, m)
Queued(queue, msgs) ==
    LET F[i \in 0..Len(msgs)] ==
            IF i = 0 THEN queue ELSE PushedUnlessQueued(F[i - 1], msgs[i])
    IN  F[Len(msgs)]

\* The host appends a message to #chat.
MessageAdded(text) ==
    LET seen == Observed(mutationBatch, mutationTimeout,
                         Mutation(Len(chat) + 1, TRUE), isAssetRenderingActive)
    IN  /\ Len(chat) < MaxMessages
        /\ chat' = Append(chat, Mes(text))
        /\ mutationBatch' = seen.batch
        /\ mutationTimeout' = seen.timeout
        /\ UNCHANGED <<hostVars, serverVars, charCacheVars, personaCacheVars,
                       isAssetRenderingActive, chatObserver, queueVars, updateTimer,
                       resolved>>

\* The host empties #chat (another chat is about to be shown).  The removed
\* elements are dropped from the queue and from the two WeakSets: detached,
\* they are skipped by renderMessageFast and never met again.
ChatCleared ==
    /\ chat # <<>>
    /\ chat' = <<>>
    /\ renderQueue' = <<>>
    /\ processedMessages' = {}
    /\ noImageTagMessages' = {}
    /\ mutationBatch' = <<>>
    /\ mutationTimeout' = (mutationTimeout \/ (chatObserver /\ isAssetRenderingActive))
    /\ UNCHANGED <<hostVars, serverVars, charCacheVars, personaCacheVars,
                   isAssetRenderingActive, chatObserver, isRenderScheduled, updateTimer,
                   resolved>>

\* CHAT_CHANGED: the tracking of the old chat is dropped and
\* updateAssetRenderingState is due in 100 ms.
ChatChanged ==
    /\ updateTimer < MaxTimers
    /\ renderQueue' = <<>>
    /\ mutationBatch' = <<>>
    /\ processedMessages' = {}
    /\ noImageTagMessages' = {}
    /\ updateTimer' = updateTimer + 1
    /\ UNCHANGED <<hostVars, serverVars, charCacheVars, personaCacheVars,
                   isAssetRenderingActive, chat, chatObserver, mutationTimeout,
                   isRenderScheduled, resolved>>

\* CHARACTER_SELECTED, the host having made id the current character: the
\* character cache is invalidated and updateAssetRenderingState is due.
CharacterSelected(id) ==
    /\ updateTimer < MaxTimers
    /\ characterId' = id
    /\ InvalidateAssetCache
    /\ updateTimer' = updateTimer + 1
    /\ resolved' = NoValue
    /\ UNCHANGED <<characters, name1, personas, serverVars, domVars, queueVars>>

\* SETTINGS_UPDATED: the persona may have changed.
SettingsUpdated ==
    /\ personaAssetCache # <<>> \/ cachedPersonaName # NoValue
    /\ InvalidatePersonaAssetCache
    /\ resolved' = NoValue
    /\ UNCHANGED <<hostVars, serverVars, domVars, queueVars, updateTimer>>

\* checkCharacterHasAssets
checkCharacterHasAssets ==
    /\ characterId \in DOMAIN characters
    /\ getAssetsRaw(characters[characterId]) # <<>>

\* The timer of CHARACTER_SELECTED / CHAT_CHANGED fires:
\* updateAssetRenderingState.  On activation the observer is connected and
\* initialLoadMessages queues the messages in view; on deactivation the
\* observer is disconnected and the queues are emptied.
UpdateAssetRenderingState ==
    LET hasAssets == checkCharacterHasAssets
        wasActive == isAssetRenderingActive
        queue     == Queued(renderQueue, [i \in DOMAIN chat |-> i])
    IN  /\ updateTimer > 0
        /\ updateTimer' = updateTimer - 1
        /\ isAssetRenderingActive' = hasAssets
        /\ IF hasAssets /\ ~wasActive
           THEN /\ chatObserver' = TRUE
                /\ renderQueue' = queue
                /\ isRenderScheduled' = (isRenderScheduled \/ queue # renderQueue)
                /\ UNCHANGED mutationBatch
           ELSE IF ~hasAssets /\ wasActive
           THEN /\ chatObserver' = FALSE
                /\ renderQueue' = <<>>
                /\ mutationBatch' = <<>>
                /\ UNCHANGED isRenderScheduled
           ELSE UNCHANGED <<chatObserver, renderQueue, mutationBatch, isRenderScheduled>>
        /\ UNCHANGED <<hostVars, serverVars, charCacheVars, personaCacheVars, chat,
                       mutationTimeout, processedMessages, noImageTagMessages, resolved>>

\* processMutationBatch that queues every changed message.
MutatedAlways(batch) ==
    LET Wanted(mu) == mu.mes \in DOMAIN chat
        wanted == SelectSeq(batch, Wanted)
    IN  [i \in DOMAIN wanted |-> wanted[i].mes]

\* The messages processMutationBatch queues: a new message always, a changed
\* one when it still holds a placeholder or was never processed.
MutatedMessages(batch) ==
    LET Wanted(mu) ==
            /\ mu.mes \in DOMAIN chat
            /\ \/ mu.added
               \/ HasImgTag(chat[mu.mes].html)
               \/ mu.mes \notin processedMessages
        wanted == SelectSeq(batch, Wanted)
    IN  [i \in DOMAIN wanted |-> wanted[i].mes]

\* The 50 ms mutation timer fires: processMutationBatch.
ProcessMutationBatch ==
    LET queue == Queued(renderQueue, MutatedMessages(mutationBatch))
    IN  /\ mutationTimeout
        /\ mutationTimeout' = FALSE
        /\ mutationBatch' = <<>>
        /\ IF isAssetRenderingActive
           THEN /\ renderQueue' = queue
                /\ isRenderScheduled' = (isRenderScheduled \/ queue # renderQueue)
           ELSE UNCHANGED <<renderQueue, isRenderScheduled>>
        /\ UNCHANGED <<hostVars, serverVars, charCacheVars, personaCacheVars,
                       isAssetRenderingActive, chat, chatObserver, processedMessages,
                       noImageTagMessages, updateTimer, resolved>>

(***************************************************************************)
(* Batch rendering                                                         *)
(***************************************************************************)
\* A cached Map handed back without its first entry.
CachedMinusFirst(valid, cached, built) == IF valid THEN Tail(cached) ELSE built

\* The cache buildAssetCache hands back: the cached Map while it is marked
\* for this character and not empty, else the Map rebuilt from the sources.
CachedOrBuilt(valid, cached, built) == IF valid THEN cached ELSE built

\* try { fileSystemAssets = await listCharacterImages(...) } catch { }
ListedOrNone(listing) == IF listing.ok THEN listing.assets ELSE <<>>

\* buildAssetCache(character, context): the Map it returns and leaves in
\* assetCache.  A listing that throws contributes nothing.
buildAssetCache(character) ==
    CachedOrBuilt(cachedCharacterId = characterId /\ assetCache # <<>>,
        assetCache,
        BuildAssetCacheMap(
            getAssetsRaw(character),
            ListedOrNone(listCharacterImages(character.name, imagesApi, TRUE,
                            userImages[character.name], userFiles,
                            character.inline_image_assets, LegacyOf(character))),
            scanUserImagesDirectory(character.name, Names(getAssetsRaw(character)),
                                    imagesApi, userImages[character.name])))

\* buildPersonaAssetCache(personaName): the Map it returns and leaves in
\* personaAssetCache.
buildPersonaAssetCache(personaName) ==
    CachedOrBuilt(cachedPersonaName = personaName /\ personaAssetCache # <<>>,
                  personaAssetCache,
                  BuildPersonaAssetCacheMap(getPersonaAssetsRaw(personaName),
                                            listPersonaImages(personaName, TRUE, userFiles)))

\* The end of renderMessageFast on a message that holds a placeholder:
\* innerHTML is written when a placeholder was replaced, the message is
\* marked processed.
Rendered(st, m, html, finalHtml) ==
    [chat      |-> IF finalHtml # html
                   THEN [st.chat EXCEPT ![m].html = finalHtml] ELSE st.chat,
     processed |-> st.processed \cup {m},
     noTag     |-> st.noTag,
     written   |-> IF finalHtml # html THEN Append(st.written, m) ELSE st.written,
     resolved  |-> [text |-> html, out |-> finalHtml]]

\* renderMessageFast on message m.  st: the chat, the two WeakSets, the
\* messages whose innerHTML was written and the last resolution made.
renderMessageFast(st, m, characterName, cache, personaCache) ==
    IF m \notin DOMAIN st.chat THEN st
    ELSE IF ~HasImgTag(st.chat[m].html)
    THEN IF m \in st.processed \/ m \in st.noTag THEN st
         ELSE [st EXCEPT !.noTag = @ \cup {m}]
    ELSE Rendered(st, m, st.chat[m].html,
                  ReplaceTags(st.chat[m].html, characterName, cache, personaCache))

\* The while loop of processBatchRender over the first n queued messages.
RenderBatch(n, characterName, cache, personaCache) ==
    LET F[i \in 0..n] ==
            IF i = 0
            THEN [chat |-> chat, processed |-> processedMessages,
                  noTag |-> noImageTagMessages, written |-> <<>>, resolved |-> resolved]
            ELSE renderMessageFast(F[i - 1], renderQueue[i], characterName, cache,
                                   personaCache)
    IN  F[n]

Min(a, b) == IF a < b THEN a ELSE b

\* The MutationObserver callbacks for the innerHTML writes of a batch.
ObservedAll(written, active) ==
    LET F[i \in 0..Len(written)] ==
            IF i = 0 THEN [batch |-> mutationBatch, timeout |-> mutationTimeout]
            ELSE Observed(F[i - 1].batch, F[i - 1].timeout,
                          Mutation(written[i], FALSE), active)
    IN  F[Len(written)]

\* isAssetRenderingActive after buildAssetCache: a rebuild sets it to
\* whether the cache has entries.
ActiveAfterBuild(cache) ==
    IF cachedCharacterId = characterId /\ assetCache # <<>>
    THEN isAssetRenderingActive ELSE cache # <<>>

\* The state processBatchRender leaves after its loop.
BatchRendered(st, seen, rest, active) ==
    /\ isAssetRenderingActive' = active
    /\ chat' = st.chat
    /\ processedMessages' = st.processed
    /\ noImageTagMessages' = st.noTag
    /\ resolved' = st.resolved
    /\ renderQueue' = rest
    /\ isRenderScheduled' = (rest # <<>> /\ active)
    /\ mutationBatch' = seen.batch
    /\ mutationTimeout' = seen.timeout

\* processBatchRender from the cache builds on.
RenderWith(characterName, cache, pCache, n) ==
    /\ assetCache' = cache
    /\ cachedCharacterId' = characterId
    /\ IF name1 # NoValue
       THEN personaAssetCache' = pCache /\ cachedPersonaName' = name1
       ELSE UNCHANGED personaCacheVars
    /\ IF cache = <<>> /\ pCache = <<>>
       THEN /\ renderQueue' = <<>>
            /\ isAssetRenderingActive' = FALSE
            /\ isRenderScheduled' = FALSE
            /\ UNCHANGED <<chat, mutationBatch, mutationTimeout,
                           processedMessages, noImageTagMessages, resolved>>
       ELSE BatchRendered(RenderBatch(n, characterName, cache, pCache),
                ObservedAll(RenderBatch(n, characterName, cache, pCache).written,
                            ActiveAfterBuild(cache)),
                SubSeq(renderQueue, n + 1, Len(renderQueue)),
                ActiveAfterBuild(cache))

\* The idle callback of scheduleRender runs processBatchRender.  budget: the
\* number of messages the deadline leaves time for.
ProcessBatchRender(budget) ==
    /\ isRenderScheduled
    /\ IF ~isAssetRenderingActive
       THEN /\ isRenderScheduled' = FALSE
            /\ renderQueue' = <<>>
            /\ UNCHANGED <<charCacheVars, personaCacheVars, isAssetRenderingActive,
                           chat, mutationBatch, mutationTimeout, processedMessages,
                           noImageTagMessages, resolved>>
       ELSE IF chat = <<>> \/ characterId \notin DOMAIN characters
       THEN /\ isRenderScheduled' = FALSE
            /\ UNCHANGED <<charCacheVars, personaCacheVars, isAssetRenderingActive,
                           chat, mutationBatch, mutationTimeout, renderQueue,
                           processedMessages, noImageTagMessages, resolved>>
       ELSE RenderWith(characters[characterId].name,
                       buildAssetCache(characters[characterId]),
                       IF name1 # NoValue THEN buildPersonaAssetCache(name1) ELSE <<>>,
                       Min(Min(Len(renderQueue), BATCH_SIZE), budget))
    /\ UNCHANGED <<hostVars, serverVars, chatObserver, updateTimer>>

(***************************************************************************)
(* Specification of the asset manager and the renderer                     *)
(***************************************************************************)
\* The registries a character card may carry when the extension loads:
\* none, one record added through the manual path dialog, or one legacy
\* inline record.
SmileRecord == AssetRecord(smile, ManualUrl(smile \o Png), smile \o Png, NoValue, FALSE)
LegacySmileRecord == AssetRecord(smile, NoValue, NoValue, InlineData, FALSE)
InitCharacters ==
    { <<Character(Ann, <<>>, <<>>)>>,
      <<Character(Ann, <<SmileRecord>>, <<>>)>>,
      <<Character(Ann, <<>>, <<LegacySmileRecord>>)>> }

\* The state onUiLoaded leaves: nothing cached, no chat shown yet, and
\* updateAssetRenderingState already run once.
InitWith(chars) ==
    /\ characters = chars
    /\ characterId = 1
    /\ name1 = Usr
    /\ personas = [n \in PersonaNames |-> <<>>]
    /\ userImages = [n \in CharacterNames |-> <<>>]
    /\ userFiles = <<>>
    /\ imagesApi \in BOOLEAN
    /\ assetCache = <<>>
    /\ cachedCharacterId = NoId
    /\ personaAssetCache = <<>>
    /\ cachedPersonaName = NoValue
    /\ isAssetRenderingActive = (getAssetsRaw(chars[1]) # <<>>)
    /\ chat = <<>>
    /\ chatObserver = (getAssetsRaw(chars[1]) # <<>>)
    /\ mutationBatch = <<>>
    /\ mutationTimeout = FALSE
    /\ renderQueue = <<>>
    /\ isRenderScheduled = FALSE
    /\ processedMessages = {}
    /\ noImageTagMessages = {}
    /\ updateTimer = 0
    /\ resolved = NoValue

Init == (\E chars \in InitCharacters : InitWith(chars)) /\ AuxInit

\* processBatchRender for one visible message of the given html, from the
\* test of isAssetRenderingActive to the end of renderMessageFast: both
\* caches are built (or reused) and the message's placeholders replaced.
\* The message's way through #chat, the observers and the queue is the
\* subject of SpecRender; here its html before and after is kept in
\* `resolved`.
VisibleRendered(text, characterName, cache, pCache) ==
    /\ assetCache' = cache
    /\ cachedCharacterId' = characterId
    /\ IF name1 # NoValue
       THEN personaAssetCache' = pCache /\ cachedPersonaName' = name1
       ELSE UNCHANGED personaCacheVars
    /\ IF cache = <<>> /\ pCache = <<>>
       THEN isAssetRenderingActive' = FALSE /\ UNCHANGED resolved
       ELSE /\ isAssetRenderingActive' = ActiveAfterBuild(cache)
            /\ resolved' = renderMessageFast(
                                [chat |-> <<Mes(text)>>, processed |-> {}, noTag |-> {},
                                 written |-> <<>>, resolved |-> resolved],
                                1, characterName, cache, pCache).resolved

RenderVisibleMessage(text) ==
    /\ isAssetRenderingActive
    /\ VisibleRendered(text, characters[characterId].name,
                       buildAssetCache(characters[characterId]),
                       IF name1 # NoValue THEN buildPersonaAssetCache(name1) ELSE <<>>)
    /\ UNCHANGED <<hostVars, serverVars, domVars, queueVars, updateTimer>>

Next ==
    \/ \E file \in UploadFiles, uploadOk \in BOOLEAN : HandleFileUpload(file, uploadOk) /\ UNCHANGED auxVars
    \/ \E filename \in ManualFilenames : ManualImport(filename) /\ UNCHANGED auxVars
    \/ ImportUserImages /\ UNCHANGED auxVars
    \/ \E index \in 1..MaxAssets, typed \in TypedNames : NameChange(index, typed) /\ UNCHANGED auxVars
    \/ \E index \in 1..MaxAssets : DeleteAsset(index) /\ UNCHANGED auxVars
    \/ RefreshAssets /\ UNCHANGED auxVars
    \/ MigrateLegacy /\ UNCHANGED auxVars
    \/ \E file \in PersonaUploadFiles : HandlePersonaFileUpload(file) /\ UNCHANGED auxVars
    \/ \E index \in 1..MaxAssets, typed \in PersonaTypedNames : PersonaNameChange(index, typed) /\ UNCHANGED auxVars
    \/ \E index \in 1..MaxAssets : PersonaDeleteAsset(index) /\ UNCHANGED auxVars
    \/ \E file \in PlacedFiles : PlaceImageFile(file) /\ UNCHANGED auxVars
    \/ ServerUpgraded /\ UNCHANGED auxVars
    \/ \E id \in DOMAIN characters : CharacterSelected(id) /\ UNCHANGED auxVars
    \/ SettingsUpdated /\ UNCHANGED auxVars
    \/ UpdateAssetRenderingState /\ UNCHANGED auxVars
    \/ \E text \in Texts : RenderVisibleMessage(text) /\ UNCHANGED auxVars

Spec == Init /\ [][Next]_vars

(***************************************************************************)
(* Specification of the render pipeline: the registries are fixed, the     *)
(* host's events and the extension's timers and idle callbacks interleave. *)
(***************************************************************************)
\* Ann has one asset, Bob has none; the persona has the asset wave, uploaded
\* through the persona popup.
PersonaWave == savePersonaImageFile(Usr, wave \o Png)

InitRender ==
    /\ characters = <<Character(Ann, <<SmileRecord>>, <<>>), Character(Bob, <<>>, <<>>)>>
    /\ characterId \in {1, 2}
    /\ name1 = Usr
    /\ personas = [n \in PersonaNames |-> <<PersonaWave.asset>>]
    /\ userImages = [n \in CharacterNames |-> <<>>]
    /\ userFiles = <<PersonaWave.file>>
    /\ imagesApi = TRUE
    /\ assetCache = <<>>
    /\ cachedCharacterId = NoId
    /\ personaAssetCache = <<>>
    /\ cachedPersonaName = NoValue
    /\ isAssetRenderingActive = (characterId = 1)
    /\ chat = <<>>
    /\ chatObserver = (characterId = 1)
    /\ mutationBatch = <<>>
    /\ mutationTimeout = FALSE
    /\ renderQueue = <<>>
    /\ isRenderScheduled = FALSE
    /\ processedMessages = {}
    /\ noImageTagMessages = {}
    /\ updateTimer = 0
    /\ resolved = NoValue
    /\ AuxInit

NextRender ==
    \/ \E text \in Texts : MessageAdded(text) /\ UNCHANGED auxVars
    \/ ChatCleared /\ UNCHANGED auxVars
    \/ ChatChanged /\ UNCHANGED auxVars
    \/ \E id \in DOMAIN characters : CharacterSelected(id) /\ UNCHANGED auxVars
    \/ SettingsUpdated /\ UNCHANGED auxVars
    \/ UpdateAssetRenderingState /\ UNCHANGED auxVars
    \/ ProcessMutationBatch /\ UNCHANGED auxVars
    \/ \E budget \in 0..MaxMessages : ProcessBatchRender(budget) /\ UNCHANGED auxVars

\* A pending timer fires and a scheduled idle callback runs (the browser's
\* requestIdleCallback is given a timeout, so it runs with time to render).
SpecRender ==
    /\ InitRender
    /\ [][NextRender]_vars
    /\ WF_vars(UpdateAssetRenderingState /\ UNCHANGED auxVars)
    /\ WF_vars(ProcessMutationBatch /\ UNCHANGED auxVars)
    /\ WF_vars(\E budget \in 1..MaxMessages :
                   ProcessBatchRender(budget) /\ UNCHANGED auxVars)

(***************************************************************************)
(* Batch upload and batch delete                                           *)
(***************************************************************************)
\* The largest selection handed to a batch handler, and the files offered.
MaxBatch == 2
BatchFiles == { aSpaceB \o Png, smile \o Png, wave \o Png }
Batches == UNION { [1..n -> BatchFiles] : n \in 1..MaxBatch }

\* The filter loop of handleFileUpload and handlePersonaFileUpload: a file
\* whose name without extension is registered, or was taken by an earlier
\* file of the batch, is skipped and counted.
RECURSIVE FilterUploads(_, _, _)
FilterUploads(files, existingNames, acc) ==
    IF files = <<>> THEN acc
    ELSE IF BaseOf(Head(files)) \in existingNames
    THEN FilterUploads(Tail(files), existingNames,
                       [acc EXCEPT !.skippedUploads = @ + 1])
    ELSE FilterUploads(Tail(files), existingNames \cup {BaseOf(Head(files))},
                       [acc EXCEPT !.filesToUpload = Append(@, Head(files))])
NothingFiltered == [filesToUpload |-> <<>>, skippedUploads |-> 0]
NameSet(assets) == { assets[i].name : i \in DOMAIN assets }

\* The upload loop: every file of filesToUpload is sent inside its own
\* try/catch, so each gets a result whatever happened to the others.
\* oks[i]: whether the upload of the i-th file succeeded.
UploadResults(filesToUpload, oks, Save(_)) ==
    [i \in DOMAIN filesToUpload |->
        [success |-> oks[i], file |-> Save(filesToUpload[i])]]
Successes(results) == SelectSeq(results, LAMBDA r : r.success)
NewAssets(results) ==
    [i \in DOMAIN Successes(results) |-> Successes(results)[i].file.asset]

\* The server's files after the uploads that succeeded.
RECURSIVE ImagesAfterUploads(_, _, _)
ImagesAfterUploads(images, characterName, saved) ==
    IF saved = <<>> THEN images
    ELSE ImagesAfterUploads(ImagesAfterSave(images, characterName, Head(saved).file),
                            characterName, Tail(saved))
RECURSIVE FilesAfterUploads(_, _)
FilesAfterUploads(files, saved) ==
    IF saved = <<>> THEN files
    ELSE FilesAfterUploads(AddFile(files, Head(saved).file.file), Tail(saved))
CharacterFilesAfterUploads(files, saved) ==
    FilesAfterUploads(files, SelectSeq(saved, LAMBDA r : r.file.store = "files"))

\* What the handler counted, with the registries it found.
UploadCounts(files, filtered, results) ==
    [submitted |-> Len(files),
     skippedUploads |-> filtered.skippedUploads,
     attempted |-> Len(results),
     successfulUploads |-> Len(Successes(results)),
     failedUploads |-> Len(results) - Len(Successes(results)),
     characters |-> characters,
     personas |-> personas]

\* The end of handleFileUpload: saveAssets when an upload succeeded, then
\* initializeAssetList in every case (also when no file was left to upload).
\* The character cache is invalidated by whichever of the two saved.
BatchUploaded(character, saved, listed) ==
    /\ characters' = [characters EXCEPT ![characterId] = listed]
    /\ IF saved # character \/ listed # saved
       THEN InvalidateAssetCache
       ELSE UNCHANGED <<charCacheVars, personaCacheVars, isAssetRenderingActive>>
SavedUploads(character, results) ==
    IF Successes(results) # <<>>
    THEN SaveNew(character, getAssetsRaw(character) \o NewAssets(results))
    ELSE character
UploadBatchEnd(character, results, images, files) ==
    /\ BatchUploaded(character, SavedUploads(character, results),
                     AfterAssetList(SavedUploads(character, results), images, files))
    /\ userImages' = images
    /\ userFiles' = files
UploadBatchRun(files, filtered, results) ==
    /\ UploadBatchEnd(CurrentCharacter, results,
           ImagesAfterUploads(userImages, CurrentCharacter.name, Successes(results)),
           CharacterFilesAfterUploads(userFiles, Successes(results)))
    /\ uploadReport' = UploadCounts(files, filtered, results)
UploadBatch(files, oks) ==
    /\ Len(getAssetsRaw(CurrentCharacter)) + Len(files) <= MaxAssets
    /\ UploadBatchRun(files,
           FilterUploads(files, NameSet(getAssetsRaw(CurrentCharacter)), NothingFiltered),
           UploadResults(
               FilterUploads(files, NameSet(getAssetsRaw(CurrentCharacter)),
                             NothingFiltered).filesToUpload,
               oks, LAMBDA f : saveImageFile(CurrentCharacter.name, f)))
    /\ deleteReport' = NoValue
    /\ resolved' = NoValue
    /\ UNCHANGED <<characterId, name1, personas, imagesApi,
                   domVars, queueVars, updateTimer>>

\* handlePersonaFileUpload: savePersonaAssets when an upload succeeded;
\* initializePersonaAssetList only draws the list.
PersonaUploadBatchRun(files, filtered, results) ==
    /\ IF Successes(results) # <<>>
       THEN /\ personas' = [personas EXCEPT ![name1] = @ \o NewAssets(results)]
            /\ InvalidatePersonaAssetCache
       ELSE UNCHANGED <<personas, charCacheVars, personaCacheVars,
                        isAssetRenderingActive>>
    /\ userFiles' = FilesAfterUploads(userFiles, Successes(results))
    /\ uploadReport' = UploadCounts(files, filtered, results)
PersonaUploadBatch(files, oks) ==
    /\ name1 # NoValue
    /\ Len(getPersonaAssetsRaw(name1)) + Len(files) <= MaxAssets
    /\ PersonaUploadBatchRun(files,
           FilterUploads(files, NameSet(getPersonaAssetsRaw(name1)), NothingFiltered),
           UploadResults(
               FilterUploads(files, NameSet(getPersonaAssetsRaw(name1)),
                             NothingFiltered).filesToUpload,
               oks, LAMBDA f : savePersonaImageFile(name1, f)))
    /\ deleteReport' = NoValue
    /\ resolved' = NoValue
    /\ UNCHANGED <<characters, characterId, name1, userImages, imagesApi,
                   domVars, queueVars, updateTimer>>

\* deleteMultipleImages: every item is passed to deleteImageFile, which
\* answers false instead of throwing; oks[i]: whether the i-th delete was
\* accepted.
RECURSIVE deleteMultipleImages(_, _, _, _)
deleteMultipleImages(characterName, filenames, oks, acc) ==
    IF filenames = <<>> THEN acc
    ELSE deleteMultipleImages(characterName, Tail(filenames), Tail(oks),
            IF Head(oks)
            THEN [acc EXCEPT !.success = @ + 1,
                             !.files = FilesAfterDelete(@, characterName, Head(filenames))]
            ELSE [acc EXCEPT !.failed = @ + 1])

\* The "delete selected" button: the files of the selected records that
\* have one are deleted (highest index first), every selected record leaves
\* the registry, and the list is refreshed.
Descending(selected) ==
    LET n == Cardinality(selected)
        Rank(i) == Cardinality({ j \in selected : j > i }) + 1
    IN  [k \in 1..n |-> CHOOSE i \in selected : Rank(i) = k]
SelectedFilenames(assets, toDelete) ==
    LET picked == SelectSeq([k \in DOMAIN toDelete |-> assets[toDelete[k]]],
                            LAMBDA a : a.filename # NoValue /\ ~IsLegacyRecord(a))
    IN  [k \in DOMAIN picked |-> picked[k].filename]
AfterSelectedRemoved(character, assets, selected) ==
    LET newAssets == SelectSeqIdx(assets, LAMBDA i : i \notin selected)
        saved     == SaveNew(character, newAssets)
    IN  IF (\E i \in selected : IsLegacyRecord(assets[i]))
            /\ ~\E i \in DOMAIN newAssets : IsLegacyRecord(newAssets[i])
        THEN clearLegacyAssets(saved) ELSE saved
DeleteBatchRun(character, selected, filenames, results) ==
    /\ characters' = [characters EXCEPT ![characterId] =
            AfterAssetList(AfterSelectedRemoved(character, getAssetsRaw(character), selected),
                           userImages, results.files)]
    /\ userFiles' = results.files
    /\ deleteReport' = [submitted |-> Len(filenames),
                        success |-> results.success, failed |-> results.failed]
DeleteBatch(selected, oks) ==
    /\ selected # {}
    /\ selected \subseteq DOMAIN getAssetsRaw(CurrentCharacter)
    /\ DeleteBatchRun(CurrentCharacter, selected,
           SelectedFilenames(getAssetsRaw(CurrentCharacter), Descending(selected)),
           deleteMultipleImages(CurrentCharacter.name,
               SelectedFilenames(getAssetsRaw(CurrentCharacter), Descending(selected)),
               oks, [success |-> 0, failed |-> 0, files |-> userFiles]))
    /\ InvalidateAssetCache
    /\ uploadReport' = NoValue
    /\ resolved' = NoValue
    /\ UNCHANGED <<characterId, name1, personas, userImages, imagesApi,
                   domVars, queueVars, updateTimer>>

\* The popups used for batches, with files appearing in user/images.
BatchPlace(file) ==
    /\ PlaceImageFile(file)
    /\ uploadReport' = NoValue
    /\ deleteReport' = NoValue
InitBatch ==
    /\ \E chars \in InitCharacters : InitWith(chars)
    /\ AuxInit
NextBatch ==
    \/ \E files \in Batches, oks \in [1..MaxBatch -> BOOLEAN] : UploadBatch(files, oks) /\ UNCHANGED notBatchVars
    \/ \E files \in Batches, oks \in [1..MaxBatch -> BOOLEAN] : PersonaUploadBatch(files, oks) /\ UNCHANGED notBatchVars
    \/ \E selected \in SUBSET (1..MaxAssets), oks \in [1..MaxAssets -> BOOLEAN] :
            DeleteBatch(selected, oks) /\ UNCHANGED notBatchVars
    \/ \E file \in PlacedFiles : BatchPlace(file) /\ UNCHANGED notBatchVars
SpecBatch == InitBatch /\ [][NextBatch]_vars

(***************************************************************************)
(* Upload and delete requests                                              *)
(***************************************************************************)
\* What the server may answer to a request; 0: fetch rejects (network error).
Answers == {0, 200, 403, 404, 500}
\* What /csrf-token may answer: fetchCsrfToken treats every other status as
\* it treats a rejected fetch (no token, nothing remembered).
CsrfAnswers == {0, 200, 404}
ResponseOk(status) == status \in 200..299
CallFns == {"saveImageFile", "savePersonaImageFile",
            "deleteImageFile", "deletePersonaImageFile"}
IsUpload(fn) == fn \in {"saveImageFile", "savePersonaImageFile"}
RequestFile == aSpaceB \o Png

\* The full file name a call works on in the flat store.
FlatFullFilename(fn, scopeName, filename) ==
    IF fn = "saveImageFile"
    THEN LegacyFullFilename(scopeName, sanitizePathSegment(filename))
    ELSE IF fn = "savePersonaImageFile"
    THEN PersonaFullFilename(scopeName, sanitizePathSegment(filename))
    ELSE IF fn = "deleteImageFile"
    THEN (IF StartsWith(filename, getCharacterFilePrefix(scopeName)) THEN filename
          ELSE getAssetFullFilename(scopeName, filename))
    ELSE (IF StartsWith(filename, getPersonaFilePrefix(scopeName)) THEN filename
          ELSE getPersonaAssetFullFilename(scopeName, filename))

\* pathsToTry of the two delete functions.
pathsToTry(fullFilename) ==
    << fullFilename, <<"files/">> \o fullFilename, <<"/", "files/">> \o fullFilename >>

\* The request a call sends at a stage.  Stage 0 is the images API of the
\* character functions; stages 1.. are the flat store (for a delete, one
\* stage per entry of pathsToTry).
RequestAt(fn, scopeName, filename, stage) ==
    IF IsUpload(fn)
    THEN IF stage = 0
         THEN [url |-> "/api/images/upload",
               body |-> <<scopeName, getImageNameAndFormat(filename).fullFilename>>]
         ELSE [url |-> "/api/files/upload",
               body |-> <<FlatFullFilename(fn, scopeName, filename)>>]
    ELSE IF stage = 0
         THEN [url |-> "/api/images/delete",
               body |-> <<<<"user/images/">> \o scopeName \o <<"/">> \o filename>>]
         ELSE [url |-> "/api/files/delete",
               body |-> <<pathsToTry(FlatFullFilename(fn, scopeName, filename))[stage]>>]
LastStage(fn) == IF IsUpload(fn) THEN 1 ELSE 3
FirstStage(fn, isImageDir) ==
    IF fn = "saveImageFile" \/ (fn = "deleteImageFile" /\ isImageDir) THEN 0 ELSE 1

\* A retry that is itself retried when its answer is 403.
RetryEvery403(attempt, status) == status = 403

\* The condition under which a request is sent again: it was the first
\* attempt and the answer was 403.
RetriedOnce(attempt, status) == attempt = 1 /\ status = 403

\* A function is called: nothing sent yet, the headers not built.  Tokens are
\* numbered in the order the server issued them; a token held from before
\* the call is token 1.
StartCall(fn, scopeName, isImageDir) ==
    /\ call = NoValue
    /\ call' = [fn |-> fn, scopeName |-> scopeName, filename |-> RequestFile,
                stage |-> FirstStage(fn, isImageDir), attempt |-> 1,
                built |-> FALSE, headers |-> 0, loopHeaders |-> 0,
                issued |-> IF cachedCsrfToken > 0 THEN 1 ELSE 0]
    /\ cachedCsrfToken' = IF cachedCsrfToken > 0 THEN 1 ELSE 0
    /\ requestLog' = <<>>
    /\ callResult' = "none"
    /\ UNCHANGED csrfDisabled

\* getApiHeaders when no token is held: fetchCsrfToken asks /csrf-token.
\* Every failure is caught there and the headers go without a token; 404
\* marks CSRF as disabled.
HeadersBuilt(token) ==
    call' = [call EXCEPT !.built = TRUE, !.headers = token,
                         !.loopHeaders = IF call.attempt = 1 THEN token ELSE @,
                         !.issued = IF token > 0 THEN token ELSE @]
FetchCsrfToken(answer) ==
    /\ call # NoValue
    /\ ~call.built /\ ~csrfDisabled /\ cachedCsrfToken = 0
    /\ requestLog' = Append(requestLog,
            [url |-> "/csrf-token", body |-> <<>>, token |-> 0, status |-> answer])
    /\ HeadersBuilt(IF ResponseOk(answer) THEN call.issued + 1 ELSE 0)
    /\ cachedCsrfToken' = IF ResponseOk(answer) THEN call.issued + 1 ELSE 0
    /\ csrfDisabled' = (answer = 404)
    /\ UNCHANGED callResult

\* The token a request carries: the one of the headers built for it, which
\* getApiHeaders takes from the cache when it has not asked the server.
HeaderToken ==
    IF call.built THEN call.headers
    ELSE IF csrfDisabled THEN 0 ELSE cachedCsrfToken
\* The headers built before the loop over pathsToTry, which the first
\* attempt at every path reuses.
LoopHeaders == IF call.attempt = 1 THEN HeaderToken ELSE call.loopHeaders

\* The call after an answer that ends the attempt at a request without
\* success: the next request of the function, or its failure.
Finished(result) ==
    /\ call' = NoValue
    /\ callResult' = result
    /\ UNCHANGED <<cachedCsrfToken, csrfDisabled>>
NextRequest(fresh) ==
    /\ call' = [call EXCEPT !.stage = @ + 1, !.attempt = 1,
                            !.built = ~fresh,
                            !.headers = IF fresh THEN 0 ELSE LoopHeaders,
                            !.loopHeaders = LoopHeaders]
    /\ UNCHANGED <<cachedCsrfToken, csrfDisabled, callResult>>
Unsuccessful(status) ==
    IF call.fn = "saveImageFile"
    THEN IF call.stage = 0 /\ status = 404 THEN NextRequest(TRUE)
         ELSE Finished("threw")
    ELSE IF call.fn = "savePersonaImageFile" THEN Finished("threw")
    ELSE IF call.stage < LastStage(call.fn) THEN NextRequest(call.stage = 0)
    ELSE Finished("false")
Successful ==
    IF IsUpload(call.fn)
    THEN Finished(IF call.stage = 0 THEN "saved to user/images"
                  ELSE "saved to user/files")
    ELSE Finished("true")

\* One fetch of the call's current request and what the function does with
\* the answer.  A rejected fetch is caught at the end of the function: an
\* upload rethrows, a delete returns false.
Answered(status) ==
    IF status = 0
    THEN Finished(IF IsUpload(call.fn) THEN "threw" ELSE "false")
    ELSE IF RetriedOnce(call.attempt, status)
    THEN /\ call' = [call EXCEPT !.attempt = 2, !.built = FALSE,
                                 !.loopHeaders = LoopHeaders]
         /\ cachedCsrfToken' = 0
         /\ csrfDisabled' = FALSE
         /\ UNCHANGED callResult
    ELSE IF ResponseOk(status) THEN Successful
    ELSE Unsuccessful(status)
SendRequest(answer) ==
    /\ call # NoValue
    /\ call.built \/ csrfDisabled \/ cachedCsrfToken > 0
    /\ requestLog' = Append(requestLog,
            [url |-> RequestAt(call.fn, call.scopeName, call.filename, call.stage).url,
             body |-> RequestAt(call.fn, call.scopeName, call.filename, call.stage).body,
             token |-> HeaderToken, status |-> answer])
    /\ Answered(answer)

\* The four functions called one after the other, against any server.
InitRequests ==
    /\ InitWith(<<Character(Ann, <<>>, <<>>)>>)
    /\ imagesApi = TRUE
    /\ AuxInit
NextRequests ==
    \/ \E fn \in CallFns, isImageDir \in BOOLEAN :
            /\ StartCall(fn, IF fn \in {"saveImageFile", "deleteImageFile"}
                             THEN Ann ELSE Usr, isImageDir)
            /\ UNCHANGED notRequestVars
    \/ \E answer \in CsrfAnswers : FetchCsrfToken(answer) /\ UNCHANGED notRequestVars
    \/ \E answer \in Answers : SendRequest(answer) /\ UNCHANGED notRequestVars
SpecRequests == InitRequests /\ [][NextRequests]_vars

(***************************************************************************)
(* Cache builds with failing sources                                       *)
(***************************************************************************)
\* The requests of a cache build that may fail on their own: the images API
\* asked by listCharacterImages, the flat listing, the images API asked by
\* scanUserImagesDirectory, and the HEAD requests of its probe.
Sources == {"images list", "flat list", "scan list", "probe"}
FailureSets == {{}} \cup { {source} : source \in Sources }

\* A build that gives up as soon as one source fails: the Map stays as
\* assetCache.clear() left it.
buildAssetCacheAborting(character, failed) ==
    CachedOrBuilt(cachedCharacterId = characterId /\ assetCache # <<>>,
        assetCache,
        IF failed # {} THEN <<>>
        ELSE BuildAssetCacheMap(
            getAssetsRaw(character),
            ListedOrNone(listCharacterImages(character.name, imagesApi, TRUE,
                            userImages[character.name], userFiles,
                            character.inline_image_assets, LegacyOf(character))),
            scanUserImagesDirectory(character.name, Names(getAssetsRaw(character)),
                                    imagesApi, userImages[character.name])))

\* buildAssetCache while the requests in failed are rejected or answered
\* with an error status: each is caught where it is made, so the source
\* yields nothing and the build goes on (a probe whose HEAD requests fail
\* finds no file).
buildAssetCacheFailing(character, failed) ==
    CachedOrBuilt(cachedCharacterId = characterId /\ assetCache # <<>>,
        assetCache,
        BuildAssetCacheMap(
            getAssetsRaw(character),
            ListedOrNone(listCharacterImages(character.name,
                            imagesApi /\ "images list" \notin failed,
                            "flat list" \notin failed,
                            userImages[character.name], userFiles,
                            character.inline_image_assets, LegacyOf(character))),
            scanUserImagesDirectory(character.name, Names(getAssetsRaw(character)),
                                    imagesApi /\ "scan list" \notin failed,
                                    IF "probe" \in failed THEN <<>>
                                    ELSE userImages[character.name])))

\* A message is rendered while the sources in failed are failing.  lastBuild
\* remembers the failures of the build that filled the cache.
RenderWhileFailing(text, failed) ==
    /\ isAssetRenderingActive
    /\ VisibleRendered(text, characters[characterId].name,
                       buildAssetCacheFailing(characters[characterId], failed),
                       IF name1 # NoValue THEN buildPersonaAssetCache(name1) ELSE <<>>)
    /\ lastBuild' = IF cachedCharacterId = characterId /\ assetCache # <<>>
                    THEN lastBuild ELSE [failed |-> failed]
    /\ UNCHANGED <<hostVars, serverVars, domVars, queueVars, updateTimer>>

\* The popup and the server change what the sources supply.
SourcesChanged(Handler) == Handler /\ lastBuild' = NoValue
InitSources == Init
NextSources ==
    \/ \E file \in UploadFiles, uploadOk \in BOOLEAN :
            SourcesChanged(HandleFileUpload(file, uploadOk)) /\ UNCHANGED notBuildVars
    \/ \E filename \in ManualFilenames :
            SourcesChanged(ManualImport(filename)) /\ UNCHANGED notBuildVars
    \/ \E index \in 1..MaxAssets, typed \in TypedNames :
            SourcesChanged(NameChange(index, typed)) /\ UNCHANGED notBuildVars
    \/ \E index \in 1..MaxAssets :
            SourcesChanged(DeleteAsset(index)) /\ UNCHANGED notBuildVars
    \/ SourcesChanged(MigrateLegacy) /\ UNCHANGED notBuildVars
    \/ \E file \in PlacedFiles :
            SourcesChanged(PlaceImageFile(file)) /\ UNCHANGED notBuildVars
    \/ SourcesChanged(ServerUpgraded) /\ UNCHANGED notBuildVars
    \/ \E id \in DOMAIN characters :
            SourcesChanged(CharacterSelected(id)) /\ UNCHANGED notBuildVars
    \/ SourcesChanged(UpdateAssetRenderingState) /\ UNCHANGED notBuildVars
    \/ \E text \in Texts, failed \in FailureSets :
            RenderWhileFailing(text, failed) /\ UNCHANGED notBuildVars
SpecSources == InitSources /\ [][NextSources]_vars

(***************************************************************************)
(* Prompt generation: compressAssetNames                                   *)
(***************************************************************************)
DigitChars == <<"0","1","2","3","4","5","6","7","8","9">>
NumberSeparators == {".", "_", "-"}
DigitValue(c) == (CHOOSE i \in DOMAIN DigitChars : DigitChars[i] = c) - 1
\* parseInt(digits, 10)
RECURSIVE parseInt(_)
parseInt(digits) ==
    IF digits = <<>> THEN 0
    ELSE parseInt(SubSeq(digits, 1, Len(digits) - 1)) * 10 + DigitValue(digits[Len(digits)])
\* `${num}`
RECURSIVE NumberToString(_)
NumberToString(n) ==
    IF n < 10 THEN <<DigitChars[n + 1]>>
    ELSE NumberToString(n \div 10) \o <<DigitChars[(n % 10) + 1]>>
\* String.prototype.indexOf(c), 1-based; 0 when c does not occur.
IndexOf(s, c) ==
    IF \E i \in DOMAIN s : s[i] = c
    THEN CHOOSE i \in DOMAIN s : s[i] = c /\ \A j \in 1..(i - 1) : s[j] # c
    ELSE 0
IsBaseLetter(c) ==
    c \in RangeOf(UpperLetters) \cup RangeOf(LowerLetters) \cup {"_"}

\* parseAssetNameForCompression: /^(.+)([._\-])(\d+)$/, then
\* /^([a-zA-Z_]+)(\d+)$/.  stem: the name without its trailing digits.
ParsedWith(name, stem) ==
    IF stem # name /\ Len(stem) >= 2 /\ stem[Len(stem)] \in NumberSeparators
    THEN [original |-> name, base |-> SubSeq(stem, 1, Len(stem) - 1),
          separator |-> <<stem[Len(stem)]>>,
          num |-> parseInt(SubSeq(name, Len(stem) + 1, Len(name))), hasNumber |-> TRUE]
    ELSE IF stem # name /\ stem # <<>> /\ \A i \in DOMAIN stem : IsBaseLetter(stem[i])
    THEN [original |-> name, base |-> stem, separator |-> <<>>,
          num |-> parseInt(SubSeq(name, Len(stem) + 1, Len(name))), hasNumber |-> TRUE]
    ELSE [original |-> name, base |-> NoValue, separator |-> NoValue,
          num |-> 0, hasNumber |-> FALSE]
parseAssetNameForCompression(name) == ParsedWith(name, DropTrailing(name, Digits))

\* name.replace(/[._\-]\d+$/, '').replace(/\d+$/, '')
StripNumberSuffix(name, stem) ==
    IF stem # name /\ stem # <<>> /\ stem[Len(stem)] \in NumberSeparators
    THEN SubSeq(stem, 1, Len(stem) - 1) ELSE name
CleanName(name) ==
    DropTrailing(StripNumberSuffix(name, DropTrailing(name, Digits)), Digits)

\* extractBaseName: the part of the clean name before its first underscore,
\* else before its first space, else the clean name (the name when empty).
BaseOfClean(cleanName, name) ==
    IF IndexOf(cleanName, "_") > 1 THEN SubSeq(cleanName, 1, IndexOf(cleanName, "_") - 1)
    ELSE IF IndexOf(cleanName, " ") > 1
    THEN SubSeq(cleanName, 1, IndexOf(cleanName, " ") - 1)
    ELSE IF cleanName # <<>> THEN cleanName ELSE name
extractBaseName(name) == BaseOfClean(CleanName(name), name)

\* The first entry of existingFolders equal to s when case is ignored.
FolderLike(existingFolders, s) ==
    SelectSeq(existingFolders, LAMBDA f : toLowerCase(f) = toLowerCase(s))
\* The prefixes parts.slice(0, i).join(sep) for i from parts.length - 1 down
\* to 1: the clean name cut before each occurrence of sep, the last first.
PrefixesBefore(cleanName, sep) ==
    LET at == SelectSeq([i \in DOMAIN cleanName |-> i], LAMBDA i : cleanName[i] = sep)
    IN  [k \in DOMAIN at |-> SubSeq(cleanName, 1, at[Len(at) + 1 - k] - 1)]
RECURSIVE FirstFolderLike(_, _)
FirstFolderLike(existingFolders, prefixes) ==
    IF prefixes = <<>> THEN <<>>
    ELSE IF FolderLike(existingFolders, Head(prefixes)) # <<>>
    THEN <<Head(FolderLike(existingFolders, Head(prefixes)))>>
    ELSE FirstFolderLike(existingFolders, Tail(prefixes))
\* The split point of a space-separated name of three or more words: the
\* first later word that does not start with a capital, else the last word.
SpaceSplit(cleanName, at) ==
    LET Starts(i) == /\ at[i] < Len(cleanName)
                     /\ cleanName[at[i] + 1] # " "
                     /\ LowerChar(cleanName[at[i] + 1]) = cleanName[at[i] + 1]
    IN  IF \E i \in DOMAIN at : Starts(i)
        THEN CHOOSE i \in DOMAIN at : Starts(i) /\ \A j \in 1..(i - 1) : ~Starts(j)
        ELSE Len(at)
FolderOfClean(cleanName, name, at) ==
    IF IndexOf(cleanName, "_") > 1 THEN SubSeq(cleanName, 1, IndexOf(cleanName, "_") - 1)
    ELSE IF Len(at) >= 2 THEN SubSeq(cleanName, 1, at[SpaceSplit(cleanName, at)] - 1)
    ELSE IF Len(at) = 1 THEN SubSeq(cleanName, 1, at[1] - 1)
    ELSE IF cleanName # <<>> THEN cleanName ELSE name
\* getFolderName(name, existingFolders)
FolderMatches(name, cleanName, existingFolders) ==
    FolderLike(existingFolders, extractBaseName(name))
    \o FirstFolderLike(existingFolders, PrefixesBefore(cleanName, "_"))
    \o FirstFolderLike(existingFolders, PrefixesBefore(cleanName, " "))
getFolderName(name, existingFolders) ==
    IF FolderMatches(name, CleanName(name), existingFolders) # <<>>
    THEN Head(FolderMatches(name, CleanName(name), existingFolders))
    ELSE FolderOfClean(CleanName(name), name,
             SelectSeq([i \in 1..Len(CleanName(name)) |-> i],
                       LAMBDA i : CleanName(name)[i] = " "))

\* A Set or the keys of a Map in insertion order.
InsertionOrder(seq) ==
    SelectSeqIdx(seq, LAMBDA i : \A j \in 1..(i - 1) : seq[j] # seq[i])

\* items.sort((a, b) => a.num - b.num): a stable sort.
RECURSIVE SortByNum(_)
SortByNum(items) ==
    IF items = <<>> THEN <<>>
    ELSE LET rest == SortByNum(SubSeq(items, 1, Len(items) - 1))
             last == items[Len(items)]
         IN  SelectSeq(rest, LAMBDA x : x.num <= last.num) \o <<last>>
             \o SelectSeq(rest, LAMBDA x : x.num > last.num)

\* The loop that finds the consecutive ranges of the sorted items.
RECURSIVE ConsecutiveRanges(_, _, _)
ConsecutiveRanges(items, rangeStart, rangeEnd) ==
    IF items = <<>> THEN << [start |-> rangeStart, end |-> rangeEnd] >>
    ELSE IF Head(items).num = rangeEnd.num + 1
    THEN ConsecutiveRanges(Tail(items), rangeStart, Head(items))
    ELSE << [start |-> rangeStart, end |-> rangeEnd] >>
         \o ConsecutiveRanges(Tail(items), Head(items), Head(items))
Quoted(s) == <<"\"">> \o s \o <<"\"">>
RangeEntry(range) ==
    IF range.start.num = range.end.num THEN Quoted(range.start.original)
    ELSE Quoted(range.start.base \o range.start.separator
                \o NumberToString(range.start.num) \o <<"~">>
                \o NumberToString(range.end.num))
RangeEntries(sorted) ==
    [k \in DOMAIN ConsecutiveRanges(Tail(sorted), Head(sorted), Head(sorted)) |->
        RangeEntry(ConsecutiveRanges(Tail(sorted), Head(sorted), Head(sorted))[k])]

\* numGroups: the numbered items by base and separator, each group's ranges.
NumKey(item) == <<item.base, item.separator>>
RECURSIVE Flatten(_)
Flatten(seqs) == IF seqs = <<>> THEN <<>> ELSE Head(seqs) \o Flatten(Tail(seqs))
NumberedEntries(numbered) ==
    LET keys == InsertionOrder([i \in DOMAIN numbered |-> NumKey(numbered[i])])
    IN  Flatten([k \in DOMAIN keys |->
            RangeEntries(SortByNum(SelectSeq(numbered,
                                             LAMBDA item : NumKey(item) = keys[k])))])

\* The expression list of the items without a number.
ExpressionRest(name, folderName) ==
    LET remaining == SubSeq(name, Len(folderName) + 1, Len(name))
    IN  IF ~StartsWith(toLowerCase(name), toLowerCase(folderName)) THEN name
        ELSE IF remaining # <<>> /\ remaining[1] \in {"_", " "} THEN Tail(remaining)
        ELSE remaining
DetectedSeparators(nonNumbered, folderName) ==
    LET found == SelectSeq(nonNumbered, LAMBDA item :
                    /\ StartsWith(toLowerCase(item.original), toLowerCase(folderName))
                    /\ Len(item.original) > Len(folderName)
                    /\ item.original[Len(folderName) + 1] \in {"_", " "})
    IN  [k \in DOMAIN found |-> found[k].original[Len(folderName) + 1]]
RECURSIVE JoinWith(_, _)
JoinWith(parts, sep) ==
    IF parts = <<>> THEN <<>>
    ELSE IF Len(parts) = 1 THEN parts[1]
    ELSE parts[1] \o sep \o JoinWith(Tail(parts), sep)
ExpressionEntry(folderName, expressions, detected) ==
    LET sep == IF detected = <<>> THEN "_" ELSE detected[Len(detected)]
    IN  Quoted(folderName \o <<sep>> \o <<"[">> \o JoinWith(expressions, <<",", " ">>)
               \o <<"]">>)
        \o <<" ", IF sep = "_" THEN "(underscore-separated)" ELSE "(space-separated)">>
NonNumberedEntries(nonNumbered, folderName) ==
    LET expressions == [i \in DOMAIN nonNumbered |->
                            ExpressionRest(nonNumbered[i].original, folderName)]
    IN  IF nonNumbered = <<>> THEN <<>>
        ELSE IF Len(expressions) > 1 /\ \A i \in DOMAIN expressions : expressions[i] # <<>>
        THEN << ExpressionEntry(folderName, expressions,
                                DetectedSeparators(nonNumbered, folderName)) >>
        ELSE [i \in DOMAIN nonNumbered |-> Quoted(nonNumbered[i].original)]

\* One folder group's entries.
GroupEntries(groupNames, folderName) ==
    LET parsed == [i \in DOMAIN groupNames |-> parseAssetNameForCompression(groupNames[i])]
    IN  IF Len(groupNames) = 1 THEN << Quoted(groupNames[1]) >>
        ELSE NumberedEntries(SelectSeq(parsed, LAMBDA item : item.hasNumber))
             \o NonNumberedEntries(SelectSeq(parsed, LAMBDA item : ~item.hasNumber),
                                   folderName)

\* compressAssetNames(names): the result array before it is joined.
FolderGroups(names, folderOf) ==
    LET folders == InsertionOrder(folderOf)
    IN  Flatten([k \in DOMAIN folders |->
            GroupEntries(SelectSeqIdx(names, LAMBDA i : folderOf[i] = folders[k]),
                         folders[k])])
PotentialFolders(names) ==
    InsertionOrder(SelectSeq([i \in DOMAIN names |-> extractBaseName(names[i])],
                             LAMBDA b : b # <<>>))
FoldersOf(names, potentialFolders) ==
    [i \in DOMAIN names |-> getFolderName(names[i], potentialFolders)]
compressAssetNames(names) ==
    IF names = <<>> THEN <<>>
    ELSE FolderGroups(names, FoldersOf(names, PotentialFolders(names)))

\* The names offered: a numbered series with a gap and a second spelling of
\* one number, the same base with another separator, and a plain name.
MaxNames == 4
happy == <<"h", "a", "p", "p", "y">>
NamePool ==
    { happy \o <<"_", "1">>, happy \o <<"_", "2">>, happy \o <<"_", "3">>,
      happy \o <<"_", "5">>, happy \o <<"_", "0", "2">>, happy \o <<".", "4">>,
      happy \o <<"_", "s", "a", "d">> }
NameLists ==
    { names \in UNION { [1..n -> NamePool] : n \in 1..MaxNames } :
        \A i, j \in DOMAIN names : i # j => names[i] # names[j] }

\* The "generate prompt" button compresses the names of the registry shown.
GeneratePrompt ==
    /\ promptNames # <<>>
    /\ compressed = <<>>
    /\ compressed' = compressAssetNames(promptNames)
    /\ UNCHANGED promptNames
InitPrompt ==
    /\ InitWith(<<Character(Ann, <<>>, <<>>)>>)
    /\ imagesApi = TRUE
    /\ BatchInit /\ RequestInit /\ BuildInit /\ BackendInit /\ TickInit /\ ExtInit
    /\ promptNames \in NameLists
    /\ compressed = <<>>
NextPrompt == GeneratePrompt /\ UNCHANGED notPromptVars
SpecPrompt == InitPrompt /\ [][NextPrompt]_vars

(***************************************************************************)
(* Backend (src/unnamed/part_003): the path check of the routes            *)
(***************************************************************************)
\* The characters of a request path: a letter, a dot, both slashes, a colon,
\* a drive letter, a blank, and U+0000 (written "NUL").
MaxPathLen == 4
PathChars == {"a", ".", "/", "\\", ":", "C", " ", "NUL"}
RequestPaths == UNION { [1..n -> PathChars] : n \in 0..MaxPathLen }
\* EXTENSION_DIR on the hosts: /st/ext, C:\st\ext and D:\st\ext.
ExtensionDirs ==
    { PosixDir,
      [win32 |-> TRUE, device |-> <<"C", ":">>, segments |-> PosixDir.segments],
      [win32 |-> TRUE, device |-> <<"D", ":">>, segments |-> PosixDir.segments] }

\* raw.replace(/\0/g, '').trim().replace(/\\+/g, '/').replace(/^\/+/, '')
RECURSIVE BackslashRunsToSlash(_)
BackslashRunsToSlash(s) ==
    IF s = <<>> THEN <<>>
    ELSE IF s[1] = "\\" THEN <<"/">> \o BackslashRunsToSlash(DropLeading(s, {"\\"}))
    ELSE <<s[1]>> \o BackslashRunsToSlash(Tail(s))
normalizeUserPath(inputPath) ==
    DropLeading(
        BackslashRunsToSlash(
            DropTrailing(DropLeading(SelectSeq(inputPath, LAMBDA c : c # "NUL"), {" "}),
                         {" "})),
        {"/"})

\* String.prototype.split(sep)
RECURSIVE Split(_, _)
Split(s, seps) ==
    IF \A i \in DOMAIN s : s[i] \notin seps THEN <<s>>
    ELSE LET at == CHOOSE i \in DOMAIN s :
                       s[i] \in seps /\ \A j \in 1..(i - 1) : s[j] \notin seps
         IN  <<SubSeq(s, 1, at - 1)>> \o Split(SubSeq(s, at + 1, Len(s)), seps)
IsLetter(c) == c \in RangeOf(UpperLetters) \cup RangeOf(LowerLetters)
\* /^[a-zA-Z]:\//.test(rel)
IsDrivePath(rel) == Len(rel) >= 3 /\ IsLetter(rel[1]) /\ rel[2] = ":" /\ rel[3] = "/"
HasTraversalSegment(segments) ==
    \E i \in DOMAIN segments : segments[i] \in { <<".", ".">>, <<".">> }

\* The device of an argument of win32 path.resolve ("C:"), and what follows.
DeviceOf(segment) ==
    IF Len(segment) >= 2 /\ IsLetter(segment[1]) /\ segment[2] = ":"
    THEN SubSeq(segment, 1, 2) ELSE <<>>
AfterDevice(segment) ==
    IF DeviceOf(segment) = <<>> THEN segment ELSE SubSeq(segment, 3, Len(segment))
\* The normalisation path.resolve ends with: empty and "." segments go, ".."
\* takes the segment before it (none above the root).
RECURSIVE NormalizeSegments(_, _)
NormalizeSegments(segments, done) ==
    IF segments = <<>> THEN done
    ELSE IF Head(segments) \in { <<>>, <<".">> } THEN NormalizeSegments(Tail(segments), done)
    ELSE IF Head(segments) = <<".", ".">>
    THEN NormalizeSegments(Tail(segments),
                           IF done = <<>> THEN <<>> ELSE SubSeq(done, 1, Len(done) - 1))
    ELSE NormalizeSegments(Tail(segments), Append(done, Head(segments)))
\* path.resolve(EXTENSION_DIR, ...segments).  On win32 the arguments are read
\* from the right: the first device met is kept, an argument of another
\* device is skipped, and when EXTENSION_DIR is skipped the path starts at
\* the kept drive's current directory (its root here).
RECURSIVE Win32Tail(_, _)
Win32Tail(segments, acc) ==
    IF segments = <<>> THEN acc
    ELSE LET segment == segments[Len(segments)]
             rest    == SubSeq(segments, 1, Len(segments) - 1)
         IN  IF /\ DeviceOf(segment) # <<>> /\ acc.device # <<>>
                /\ toLowerCase(DeviceOf(segment)) # toLowerCase(acc.device)
             THEN Win32Tail(rest, acc)
             ELSE Win32Tail(rest,
                    [device |-> IF acc.device = <<>> THEN DeviceOf(segment) ELSE acc.device,
                     tail |-> <<AfterDevice(segment)>> \o acc.tail])
Win32Resolved(dir, found) ==
    IF found.device # <<>> /\ toLowerCase(found.device) # toLowerCase(dir.device)
    THEN [device |-> found.device, segments |-> NormalizeSegments(found.tail, <<>>)]
    ELSE [device |-> IF found.device # <<>> THEN found.device ELSE dir.device,
          segments |-> NormalizeSegments(dir.segments \o found.tail, <<>>)]
pathResolve(dir, segments) ==
    IF dir.win32
    THEN Win32Resolved(dir, Win32Tail(segments, [device |-> <<>>, tail |-> <<>>]))
    ELSE [device |-> <<>>, segments |-> NormalizeSegments(dir.segments \o segments, <<>>)]

\* path.relative(EXTENSION_DIR, abs): the absolute path itself when it is on
\* another drive, else ".." for every segment of the directory that is not
\* shared, followed by the rest of abs (win32 compares without case).
RECURSIVE CommonPrefix(_, _, _)
CommonPrefix(a, b, win32) ==
    IF a = <<>> \/ b = <<>> THEN 0
    ELSE IF (IF win32 THEN toLowerCase(Head(a)) = toLowerCase(Head(b)) ELSE Head(a) = Head(b))
    THEN 1 + CommonPrefix(Tail(a), Tail(b), win32)
    ELSE 0
RelativeFrom(dir, abs, shared) ==
    [absolute |-> FALSE,
     segments |-> [i \in 1..(Len(dir.segments) - shared) |-> <<".", ".">>]
                  \o SubSeq(abs.segments, shared + 1, Len(abs.segments))]
pathRelative(dir, abs) ==
    IF dir.win32 /\ toLowerCase(abs.device) # toLowerCase(dir.device)
    THEN [absolute |-> TRUE, segments |-> abs.segments]
    ELSE RelativeFrom(dir, abs, CommonPrefix(dir.segments, abs.segments, dir.win32))

\* A check that lets every resolved path through.
NeverEscapes(relToRoot) == FALSE

\* !relToRoot || relToRoot.startsWith('..') || path.isAbsolute(relToRoot)
EscapesRoot(relToRoot) ==
    \/ relToRoot.absolute
    \/ relToRoot.segments = <<>>
    \/ StartsWith(relToRoot.segments[1], <<".", ".">>)

BadPath == [code |-> "E_BAD_PATH"]
Resolved(dir, rel, abs) ==
    IF EscapesRoot(pathRelative(dir, abs)) THEN BadPath
    ELSE [code |-> "ok", relPosix |-> rel, absPath |-> abs]
\* resolveSafePath(relativeInput); ALLOWED_ROOT_SUBDIRS is empty, so every
\* path is allowed by isPathAllowed.
resolveSafePath(dir, relativeInput) ==
    LET rel == normalizeUserPath(relativeInput)
    IN  IF rel = <<>> THEN BadPath
        ELSE IF IsDrivePath(rel) THEN BadPath
        ELSE IF HasTraversalSegment(Split(rel, {"/"})) THEN BadPath
        ELSE Resolved(dir, rel, pathResolve(dir, Split(rel, {"/"})))
\* The path check at the head of listFilesSafe(relativeDir).
listFilesSafe(dir, relativeDir) ==
    LET dirRel == normalizeUserPath(relativeDir)
    IN  IF HasTraversalSegment(Split(dirRel, {"/"})) THEN BadPath
        ELSE Resolved(dir, dirRel, pathResolve(dir, Split(dirRel, {"/"})))

\* The stat and file routes call resolveSafePath on the path parameter, the
\* list route calls listFilesSafe on the dir parameter.
StatOrFileRoute ==
    /\ pathResult.code = "pending"
    /\ pathResult' = [route |-> "file"] @@ resolveSafePath(extensionDir, requestPath)
    /\ UNCHANGED <<extensionDir, requestPath>>
ListRoute ==
    /\ pathResult.code = "pending"
    /\ pathResult' = [route |-> "list"] @@ listFilesSafe(extensionDir, requestPath)
    /\ UNCHANGED <<extensionDir, requestPath>>
InitBackend ==
    /\ InitWith(<<Character(Ann, <<>>, <<>>)>>)
    /\ imagesApi = TRUE
    /\ BatchInit /\ RequestInit /\ BuildInit /\ PromptInit /\ TickInit /\ ExtInit
    /\ extensionDir \in ExtensionDirs
    /\ requestPath \in RequestPaths
    /\ pathResult = [code |-> "pending"]
NextBackend ==
    \/ StatOrFileRoute /\ UNCHANGED notBackendVars
    \/ ListRoute /\ UNCHANGED notBackendVars
SpecBackend == InitBackend /\ [][NextBackend]_vars

(***************************************************************************)
(* The render tick with its awaits, and scroll detection                   *)
(*                                                                         *)
(* processBatchRender is an async function: the idle callback of           *)
(* scheduleRender runs it up to its first await and then clears            *)
(* isRenderScheduled.  A tick whose cache build has to query the server    *)
(* waits in ticks; the host's events, the timers and further idle          *)
(* callbacks run meanwhile.  A build that finds its cache valid is over    *)
(* before any of them can run.                                             *)
(***************************************************************************)
MaxTicks == 2       \* idle callbacks pending, and ticks awaiting, at once

\* scheduleRender(): isRenderScheduled and the pending callbacks it leaves.
scheduleRender(active, scheduled, scrolling, callbacks) ==
    IF ~active \/ scheduled \/ scrolling
    THEN [scheduled |-> scheduled, callbacks |-> callbacks]
    ELSE [scheduled |-> TRUE, callbacks |-> callbacks + 1]

\* The entries a rebuild writes into the Map, which holds what a rebuild
\* that ended during the await left in it.
RECURSIVE FilledInto(_, _)
FilledInto(map, entries) ==
    IF entries = <<>> THEN map
    ELSE FilledInto(MapSet(map, Head(entries).k, Head(entries).v), Tail(entries))

\* What buildAssetCache writes after its awaits, from the character the tick
\* was started for.
RebuiltAssetCache(character) ==
    BuildAssetCacheMap(
        getAssetsRaw(character),
        ListedOrNone(listCharacterImages(character.name, imagesApi, TRUE,
                        userImages[character.name], userFiles,
                        character.inline_image_assets, LegacyOf(character))),
        scanUserImagesDirectory(character.name, Names(getAssetsRaw(character)),
                                imagesApi, userImages[character.name]))
RebuiltPersonaAssetCache(personaName) ==
    BuildPersonaAssetCacheMap(getPersonaAssetsRaw(personaName),
                              listPersonaImages(personaName, TRUE, userFiles))

\* A processBatchRender call: the context it took at its start (the id, the
\* character object with the registry array buildAssetCache read before its
\* first await, the persona's name) and the build it awaits.
Tick(id, personaName, pc) ==
    [characterId |-> id, personaName |-> personaName, pc |-> pc,
     character |-> characters[id]]
Without(seq, i) == SubSeq(seq, 1, i - 1) \o SubSeq(seq, i + 1, Len(seq))

\* The tail of processBatchRender: with messages left, no scroll and
\* rendering active, isRenderScheduled is cleared and scheduleRender called.
TickTail(rest, active, scheduled, callbacks) ==
    IF rest # <<>> /\ ~isScrolling /\ active
    THEN scheduleRender(active, FALSE, isScrolling, callbacks)
    ELSE [scheduled |-> scheduled, callbacks |-> callbacks]

\* The loop and tail of processBatchRender.  st: what the loop over the
\* first n queued messages left.
TickLooped(tick, st, n, seen, active, left) ==
    /\ left.callbacks <= MaxTicks
    /\ isAssetRenderingActive' = active
    /\ chat' = st.chat
    /\ processedMessages' = st.processed
    /\ noImageTagMessages' = st.noTag
    /\ resolved' = st.resolved
    /\ renderQueue' = SubSeq(renderQueue, n + 1, Len(renderQueue))
    /\ mutationBatch' = seen.batch
    /\ mutationTimeout' = seen.timeout
    /\ isRenderScheduled' = left.scheduled
    /\ idleCallbacks' = left.callbacks
    /\ lastLoop' = [by |-> tick.characterId, selected |-> characterId,
                    marked |-> cachedCharacterId',
                    dequeued |-> SubSeq(renderQueue, 1, n), written |-> st.written,
                    scrolling |-> isScrolling]

\* processBatchRender from the end of its awaits on.  cache, pCache: the
\* Maps the builds returned, as they are now; budget: the messages the
\* deadline leaves time for.
TickResumed(tick, cache, pCache, active, scheduled, callbacks, budget) ==
    IF cache = <<>> /\ pCache = <<>>
    THEN /\ renderQueue' = <<>>
         /\ isAssetRenderingActive' = FALSE
         /\ isRenderScheduled' = scheduled
         /\ idleCallbacks' = callbacks
         /\ lastLoop' = NoValue
         /\ UNCHANGED <<chat, mutationBatch, mutationTimeout, processedMessages,
                        noImageTagMessages, resolved>>
    ELSE TickLooped(tick,
            RenderBatch(Min(Min(Len(renderQueue), BATCH_SIZE), budget),
                        characters[tick.characterId].name, cache, pCache),
            Min(Min(Len(renderQueue), BATCH_SIZE), budget),
            ObservedAll(RenderBatch(Min(Min(Len(renderQueue), BATCH_SIZE), budget),
                                    characters[tick.characterId].name, cache,
                                    pCache).written,
                        active),
            active,
            TickTail(SubSeq(renderQueue,
                            Min(Min(Len(renderQueue), BATCH_SIZE), budget) + 1,
                            Len(renderQueue)),
                     active, scheduled, callbacks))

\* processBatchRender from the return of buildAssetCache on: the persona
\* cache is returned as it is, or cleared and its listing awaited.
TickAfterCharacterBuild(tick, waiting, cache, active, scheduled, callbacks, budget) ==
    IF tick.personaName # NoValue
       /\ ~(cachedPersonaName = tick.personaName /\ personaAssetCache # <<>>)
    THEN /\ ticks' = Append(waiting, [tick EXCEPT !.pc = "personaBuild"])
         /\ personaAssetCache' = <<>>
         /\ isAssetRenderingActive' = active
         /\ isRenderScheduled' = scheduled
         /\ idleCallbacks' = callbacks
         /\ lastLoop' = NoValue
         /\ UNCHANGED <<cachedPersonaName, chat, mutationBatch, mutationTimeout,
                        renderQueue, processedMessages, noImageTagMessages, resolved>>
    ELSE /\ ticks' = waiting
         /\ UNCHANGED personaCacheVars
         /\ TickResumed(tick, cache,
                        IF tick.personaName # NoValue THEN personaAssetCache ELSE <<>>,
                        active, scheduled, callbacks, budget)

\* The idle callback of scheduleRender: processBatchRender(deadline) up to
\* its first await, then isRenderScheduled = false.
IdleCallback(budget) ==
    /\ idleCallbacks > 0
    /\ IF ~isAssetRenderingActive
       THEN /\ isRenderScheduled' = FALSE
            /\ renderQueue' = <<>>
            /\ idleCallbacks' = idleCallbacks - 1
            /\ lastLoop' = NoValue
            /\ UNCHANGED <<charCacheVars, personaCacheVars, isAssetRenderingActive,
                           chat, mutationBatch, mutationTimeout, processedMessages,
                           noImageTagMessages, resolved, ticks>>
       ELSE IF isScrolling \/ chat = <<>> \/ characterId \notin DOMAIN characters
       THEN /\ isRenderScheduled' = FALSE
            /\ idleCallbacks' = idleCallbacks - 1
            /\ lastLoop' = NoValue
            /\ UNCHANGED <<charCacheVars, personaCacheVars, isAssetRenderingActive,
                           chat, mutationBatch, mutationTimeout, renderQueue,
                           processedMessages, noImageTagMessages, resolved, ticks>>
       ELSE IF cachedCharacterId = characterId /\ assetCache # <<>>
       THEN /\ UNCHANGED charCacheVars
            /\ Len(ticks) < MaxTicks
            /\ TickAfterCharacterBuild(Tick(characterId, name1, "characterBuild"), ticks,
                                       assetCache, isAssetRenderingActive, FALSE,
                                       idleCallbacks - 1, budget)
       ELSE /\ Len(ticks) < MaxTicks
            /\ ticks' = Append(ticks, Tick(characterId, name1, "characterBuild"))
            /\ assetCache' = <<>>
            /\ isRenderScheduled' = FALSE
            /\ idleCallbacks' = idleCallbacks - 1
            /\ lastLoop' = NoValue
            /\ UNCHANGED <<cachedCharacterId, personaCacheVars, isAssetRenderingActive,
                           chat, mutationBatch, mutationTimeout, renderQueue,
                           processedMessages, noImageTagMessages, resolved>>
    /\ scrollStop' = NoValue
    /\ UNCHANGED <<hostVars, serverVars, chatObserver, updateTimer, isScrolling,
                   scrollTimeout, visibilityObserver, queueAtScroll>>

\* The listings buildAssetCache awaited have come: the Map is filled, marked
\* for the character of the tick, and rendering is active when it has
\* entries; processBatchRender goes on.
CharacterBuilt(i, built, budget) ==
    /\ ticks[i].pc = "characterBuild"
    /\ assetCache' = built
    /\ cachedCharacterId' = ticks[i].characterId
    /\ TickAfterCharacterBuild(ticks[i], Without(ticks, i), built, built # <<>>,
                               isRenderScheduled, idleCallbacks, budget)
    /\ scrollStop' = NoValue
    /\ UNCHANGED <<hostVars, serverVars, chatObserver, updateTimer, isScrolling,
                   scrollTimeout, visibilityObserver, queueAtScroll>>

\* The listing buildPersonaAssetCache awaited has come.
PersonaBuilt(i, built, budget) ==
    /\ ticks[i].pc = "personaBuild"
    /\ personaAssetCache' = built
    /\ cachedPersonaName' = ticks[i].personaName
    /\ ticks' = Without(ticks, i)
    /\ UNCHANGED charCacheVars
    /\ TickResumed(ticks[i], assetCache, built, isAssetRenderingActive,
                   isRenderScheduled, idleCallbacks, budget)
    /\ scrollStop' = NoValue
    /\ UNCHANGED <<hostVars, serverVars, chatObserver, updateTimer, isScrolling,
                   scrollTimeout, visibilityObserver, queueAtScroll>>

\* The scroll listener of #chat.
Scroll ==
    /\ isAssetRenderingActive
    /\ isScrolling' = TRUE
    /\ scrollTimeout' = TRUE
    /\ queueAtScroll' = (IF isScrolling THEN queueAtScroll ELSE {}) \cup RangeOf(renderQueue)
    /\ scrollStop' = NoValue
    /\ lastLoop' = NoValue
    /\ UNCHANGED <<vars0, visibilityObserver, idleCallbacks, ticks>>

\* The SCROLL_THROTTLE timer fires.
ScrollStopped(left) ==
    /\ scrollTimeout
    /\ left.callbacks <= MaxTicks
    /\ scrollTimeout' = FALSE
    /\ isScrolling' = FALSE
    /\ isRenderScheduled' = left.scheduled
    /\ idleCallbacks' = left.callbacks
    /\ scrollStop' = [lost |-> queueAtScroll \ RangeOf(renderQueue),
                      waiting |-> renderQueue # <<>> /\ isAssetRenderingActive,
                      callbacks |-> left.callbacks]
    /\ queueAtScroll' = {}
    /\ UNCHANGED <<hostVars, serverVars, charCacheVars, personaCacheVars,
                   isAssetRenderingActive, domVars, renderQueue, processedMessages,
                   noImageTagMessages, updateTimer, resolved, visibilityObserver, ticks>>
    /\ lastLoop' = NoValue
ScrollTimeoutFires ==
    ScrollStopped(IF renderQueue # <<>> /\ isAssetRenderingActive
                  THEN scheduleRender(isAssetRenderingActive, isRenderScheduled, FALSE,
                                      idleCallbacks)
                  ELSE [scheduled |-> isRenderScheduled, callbacks |-> idleCallbacks])

\* The IntersectionObserver callback for message m coming into view.
\* recent: the last scroll event is less than 50 ms old.
MessageQueued(m, left) ==
    /\ left.callbacks <= MaxTicks
    /\ renderQueue' = Append(renderQueue, m)
    /\ isRenderScheduled' = left.scheduled
    /\ idleCallbacks' = left.callbacks
    /\ UNCHANGED <<hostVars, serverVars, charCacheVars, personaCacheVars,
                   isAssetRenderingActive, domVars, processedMessages,
                   noImageTagMessages, updateTimer, resolved, isScrolling,
                   scrollTimeout, visibilityObserver, ticks, queueAtScroll>>
    /\ lastLoop' = NoValue
    /\ scrollStop' = NoValue
IntersectionObserved(m, recent) ==
    /\ visibilityObserver
    /\ isAssetRenderingActive
    /\ ~(isScrolling /\ recent)
    /\ m \in DOMAIN chat
    /\ m \notin processedMessages /\ m \notin noImageTagMessages
    /\ ~InSeq(renderQueue, m)
    /\ MessageQueued(m, scheduleRender(isAssetRenderingActive, isRenderScheduled,
                                       isScrolling, idleCallbacks))

\* The timer of CHARACTER_SELECTED / CHAT_CHANGED fires:
\* updateAssetRenderingState, whose initialLoadMessages queues the messages
\* through queueMessageForRender.
RenderingStateUpdated(hasAssets, wasActive, queue, left) ==
    /\ updateTimer > 0
    /\ updateTimer' = updateTimer - 1
    /\ isAssetRenderingActive' = hasAssets
    /\ IF hasAssets /\ ~wasActive
       THEN /\ left.callbacks <= MaxTicks
            /\ chatObserver' = TRUE
            /\ visibilityObserver' = TRUE
            /\ renderQueue' = queue
            /\ isRenderScheduled' = left.scheduled
            /\ idleCallbacks' = left.callbacks
            /\ UNCHANGED mutationBatch
       ELSE IF ~hasAssets /\ wasActive
       THEN /\ chatObserver' = FALSE
            /\ visibilityObserver' = FALSE
            /\ renderQueue' = <<>>
            /\ mutationBatch' = <<>>
            /\ UNCHANGED <<isRenderScheduled, idleCallbacks>>
       ELSE UNCHANGED <<chatObserver, visibilityObserver, renderQueue, mutationBatch,
                        isRenderScheduled, idleCallbacks>>
    /\ UNCHANGED <<hostVars, serverVars, charCacheVars, personaCacheVars, chat,
                   mutationTimeout, processedMessages, noImageTagMessages, resolved,
                   isScrolling, scrollTimeout, ticks>>
    /\ lastLoop' = NoValue
    /\ queueAtScroll' = {}
    /\ scrollStop' = NoValue
UpdateAssetRenderingStateTimer ==
    RenderingStateUpdated(checkCharacterHasAssets, isAssetRenderingActive,
        Queued(renderQueue, [i \in DOMAIN chat |-> i]),
        IF Queued(renderQueue, [i \in DOMAIN chat |-> i]) # renderQueue
        THEN scheduleRender(TRUE, isRenderScheduled, isScrolling, idleCallbacks)
        ELSE [scheduled |-> isRenderScheduled, callbacks |-> idleCallbacks])

\* CHAT_CHANGED also drops the IntersectionObserver.
ChatChangedObserverDropped ==
    /\ ChatChanged
    /\ visibilityObserver' = FALSE
    /\ lastLoop' = NoValue
    /\ queueAtScroll' = {}
    /\ scrollStop' = NoValue
    /\ UNCHANGED <<isScrolling, scrollTimeout, idleCallbacks, ticks>>

\* Ann and Bob each have a registry of one record, the persona has the asset
\* wave; Ann is selected, the message shown has just been queued by
\* initialLoadMessages and the idle callback is pending.
BobSmileRecord ==
    AssetRecord(smile, ManualUrl(Bob \o smile \o Png), Bob \o smile \o Png, NoValue, FALSE)
InitTicks ==
    /\ characters = <<Character(Ann, <<SmileRecord>>, <<>>),
                      Character(Bob, <<BobSmileRecord>>, <<>>)>>
    /\ characterId = 1
    /\ name1 = Usr
    /\ personas = [n \in PersonaNames |-> <<PersonaWave.asset>>]
    /\ userImages = [n \in CharacterNames |-> <<>>]
    /\ userFiles = <<PersonaWave.file>>
    /\ imagesApi = TRUE
    /\ assetCache = <<>>
    /\ cachedCharacterId = NoId
    /\ personaAssetCache = <<>>
    /\ cachedPersonaName = NoValue
    /\ isAssetRenderingActive = TRUE
    /\ chat = <<Mes(Text1)>>
    /\ chatObserver = TRUE
    /\ mutationBatch = <<>>
    /\ mutationTimeout = FALSE
    /\ renderQueue = <<1>>
    /\ isRenderScheduled = TRUE
    /\ processedMessages = {}
    /\ noImageTagMessages = {}
    /\ updateTimer = 0
    /\ resolved = NoValue
    /\ BatchInit /\ RequestInit /\ BuildInit /\ PromptInit /\ BackendInit /\ ExtInit
    /\ isScrolling = FALSE
    /\ scrollTimeout = FALSE
    /\ visibilityObserver = TRUE
    /\ idleCallbacks = 1
    /\ ticks = <<>>
    /\ lastLoop = NoValue
    /\ queueAtScroll = {}
    /\ scrollStop = NoValue

\* The messages the deadline leaves time for: none, a whole batch.
Budgets == {0, BATCH_SIZE}
NextTicks ==
    \/ \E budget \in Budgets : IdleCallback(budget) /\ UNCHANGED notTickVars
    \/ \E i \in DOMAIN ticks, budget \in Budgets :
           /\ CharacterBuilt(i, FilledInto(assetCache,
                                   RebuiltAssetCache(characters[ticks[i].characterId])),
                             budget)
           /\ UNCHANGED notTickVars
    \/ \E i \in DOMAIN ticks, budget \in Budgets :
           /\ PersonaBuilt(i, FilledInto(personaAssetCache,
                                  RebuiltPersonaAssetCache(ticks[i].personaName)),
                           budget)
           /\ UNCHANGED notTickVars
    \/ Scroll /\ UNCHANGED notTickVars
    \/ ScrollTimeoutFires /\ UNCHANGED notTickVars
    \/ \E m \in DOMAIN chat, recent \in BOOLEAN :
           IntersectionObserved(m, recent) /\ UNCHANGED notTickVars
    \/ \E id \in DOMAIN characters :
           /\ CharacterSelected(id)
           /\ lastLoop' = NoValue
           /\ queueAtScroll' = {}
           /\ scrollStop' = NoValue
           /\ UNCHANGED <<isScrolling, scrollTimeout, visibilityObserver, idleCallbacks,
                          ticks>>
           /\ UNCHANGED notTickVars
    \/ ChatChangedObserverDropped /\ UNCHANGED notTickVars
    \/ UpdateAssetRenderingStateTimer /\ UNCHANGED notTickVars

\* A pending timer fires, a pending idle callback runs and an awaited
\* listing comes back.
SpecTicks ==
    /\ InitTicks
    /\ [][NextTicks]_vars

(***************************************************************************)
(* Specification of the placeholder lookup: registries drawn from a pool   *)
(* of record names, a visible message rendered from the caches built of    *)
(* them.                                                                   *)
(***************************************************************************)
\* Display names a user may give records, each saved with its own url.
A_b == <<"A", "_", "b">>
ASpaceB == <<"A", " ", "b">>
RecordNames == { a_b \o Png, A_b, a_b, smile }
NamedRecord(name) == AssetRecord(name, ManualUrl(name), name, NoValue, FALSE)
\* The registries of up to two records with different names.
NamedRegistries ==
    { <<NamedRecord(n)>> : n \in RecordNames }
    \cup { <<NamedRecord(p[1]), NamedRecord(p[2])>> :
               p \in { q \in RecordNames \X RecordNames : q[1] # q[2] } }
\* The messages rendered: a placeholder with an extension and capitals, one
\* without extension.
LookupTexts == { <<TagToken(ASpaceB \o Png)>>, <<TagToken(Smile)>> }

\* The state onUiLoaded leaves for a character and a persona with these
\* registries.
InitLookup ==
    /\ characters \in { <<Character(Ann, registry, <<>>)>> : registry \in NamedRegistries }
    /\ characterId = 1
    /\ name1 = Usr
    /\ personas \in { [n \in PersonaNames |-> registry] :
                         registry \in NamedRegistries \cup {<<>>} }
    /\ userImages = [n \in CharacterNames |-> <<>>]
    /\ userFiles = <<>>
    /\ imagesApi = TRUE
    /\ assetCache = <<>>
    /\ cachedCharacterId = NoId
    /\ personaAssetCache = <<>>
    /\ cachedPersonaName = NoValue
    /\ isAssetRenderingActive = TRUE
    /\ chat = <<>>
    /\ chatObserver = TRUE
    /\ mutationBatch = <<>>
    /\ mutationTimeout = FALSE
    /\ renderQueue = <<>>
    /\ isRenderScheduled = FALSE
    /\ processedMessages = {}
    /\ noImageTagMessages = {}
    /\ updateTimer = 0
    /\ resolved = NoValue
    /\ AuxInit
NextLookup ==
    \E text \in LookupTexts : RenderVisibleMessage(text) /\ UNCHANGED auxVars
SpecLookup == InitLookup /\ [][NextLookup]_vars

(***************************************************************************)
(* Specification of the caches' events: the handlers of Spec, each leaving *)
(* in cacheEvent what it was to the caches: a write to a registry, a scope *)
(* switch, a click on the refresh button, or a lookup.                     *)
(***************************************************************************)
Event(kind, scope) == [kind |-> kind, scope |-> scope]

\* A handler of the character's popup has run: a write if
\* writeExtensionField was called with a changed registry.
CharacterEvent ==
    cacheEvent' = IF characters' # characters
                  THEN Event("write", "character") ELSE NoValue

\* A handler of the persona's popup has run.
PersonaEvent ==
    cacheEvent' = IF personas' # personas
                  THEN Event("write", "persona") ELSE NoValue

\* The refresh button of the asset manager: initializeAssetList, which
\* saves (and invalidates) only when its auto-sync changed the registry,
\* then the toast.
RefreshButton ==
    /\ \/ RefreshAssets
       \/ /\ AfterAssetList(CurrentCharacter, userImages, userFiles) = CurrentCharacter
          /\ UNCHANGED vars0
    /\ cacheEvent' = Event("refresh", "character")

NextCache ==
    \/ \E file \in UploadFiles, uploadOk \in BOOLEAN :
        HandleFileUpload(file, uploadOk) /\ CharacterEvent /\ UNCHANGED notCacheEventVars
    \/ \E filename \in ManualFilenames :
        ManualImport(filename) /\ CharacterEvent /\ UNCHANGED notCacheEventVars
    \/ ImportUserImages /\ CharacterEvent /\ UNCHANGED notCacheEventVars
    \/ \E index \in 1..MaxAssets, typed \in TypedNames :
        NameChange(index, typed) /\ CharacterEvent /\ UNCHANGED notCacheEventVars
    \/ \E index \in 1..MaxAssets :
        DeleteAsset(index) /\ CharacterEvent /\ UNCHANGED notCacheEventVars
    \/ RefreshButton /\ UNCHANGED notCacheEventVars
    \/ MigrateLegacy /\ CharacterEvent /\ UNCHANGED notCacheEventVars
    \/ \E file \in PersonaUploadFiles :
        HandlePersonaFileUpload(file) /\ PersonaEvent /\ UNCHANGED notCacheEventVars
    \/ \E index \in 1..MaxAssets, typed \in PersonaTypedNames :
        PersonaNameChange(index, typed) /\ PersonaEvent /\ UNCHANGED notCacheEventVars
    \/ \E index \in 1..MaxAssets :
        PersonaDeleteAsset(index) /\ PersonaEvent /\ UNCHANGED notCacheEventVars
    \/ \E file \in PlacedFiles :
        PlaceImageFile(file) /\ cacheEvent' = NoValue /\ UNCHANGED notCacheEventVars
    \/ \E id \in DOMAIN characters :
        /\ CharacterSelected(id)
        /\ cacheEvent' = Event("switch", "character")
        /\ UNCHANGED notCacheEventVars
    \/ /\ SettingsUpdated
       /\ cacheEvent' = Event("switch", "persona")
       /\ UNCHANGED notCacheEventVars
    \/ UpdateAssetRenderingState /\ cacheEvent' = NoValue /\ UNCHANGED notCacheEventVars
    \/ \E text \in Texts :
        /\ RenderVisibleMessage(text)
        /\ cacheEvent' = Event("lookup", "both")
        /\ UNCHANGED notCacheEventVars

SpecCache == Init /\ [][NextCache]_vars

(***************************************************************************)
(* Specification of the render loop: a chat of LoopMessages messages, both *)
(* caches built, so that a processBatchRender call runs from its idle      *)
(* callback to its end without another handler in between.  The host edits *)
(* messages, the user scrolls, messages come into view, and a resolution   *)
(* may throw.                                                              *)
(***************************************************************************)
LoopMessages == 10
MaxEnqueues == 13
MaxFaults == 1
MaxMutations == 2

\* The messages of the chat: the first holds a placeholder of a registered
\* and one of an unknown asset, the second and the last one placeholder
\* each, the others none.  The last is below the viewport.
PlainText == <<TextToken("hi ")>>
LoopText(i) ==
    IF i = 1 THEN Text1
    ELSE IF i = 2 THEN <<TagToken(smile)>>
    ELSE IF i = LoopMessages THEN <<TagToken(wave)>>
    ELSE PlainText

\* deadline.timeRemaining() leaves time for no message, for three, or there
\* is no deadline (the setTimeout fallback of requestIdleCallback).
NoDeadline == LoopMessages
LoopBudgets == {0, 3, NoDeadline}

\* renderQueue.shift(), n times: the elements taken, in the order taken,
\* and the elements left.
Popped(queue, n) ==
    [taken |-> [i \in 1..n |-> queue[Len(queue) + 1 - i]],
     rest  |-> SubSeq(queue, 1, Len(queue) - n)]
Shifted(queue, n) ==
    [taken |-> SubSeq(queue, 1, n),
     rest  |-> SubSeq(queue, n + 1, Len(queue))]

\* while (renderQueue.length > 0 && processed < maxBatch), left at once
\* when the deadline has less than 2 ms: the most the loop can take.
LoopCount(length, budget) == Min(Min(length, BATCH_SIZE), budget)

\* if (messageElement.dataset.rendering) return;
NeverRendering(m, marked) == FALSE
IsRendering(m, marked) == m \in marked

\* The test of processedMessages: a processed element is left alone unless
\* its html still includes '%%img:'.
AlreadyProcessed(processed, tagged) == processed
AlreadyHandled(processed, tagged) == processed /\ ~tagged

\* What the loop knows of the element it hands to renderMessageFast.
Passed(ls, m, time) ==
    [m |-> m, time |-> time,
     marked    |-> m \in ls.rendering,
     processed |-> m \in ls.core.processed,
     tagged    |-> m \in DOMAIN ls.core.chat /\ HasImgTag(ls.core.chat[m].html),
     entered   |-> FALSE]

\* One renderMessageFast call of the loop.  ls: the chat and the WeakSets
\* (core), the elements marked by dataset.rendering, whether the call
\* threw, and the log of the calls.  faulty: the replace callback throws,
\* after dataset.rendering was set and before anything was written.
LoopStep(ls, info, characterName, cache, pCache, faulty) ==
    IF IsRendering(info.m, ls.rendering)
       \/ AlreadyHandled(info.processed, info.tagged)
    THEN [ls EXCEPT !.log = Append(@, [info EXCEPT !.entered = FALSE])]
    ELSE IF ~info.tagged
    THEN [ls EXCEPT !.core = renderMessageFast(@, info.m, characterName, cache, pCache),
                    !.log = Append(@, [info EXCEPT !.entered = FALSE])]
    ELSE IF faulty
    THEN [ls EXCEPT !.rendering = @ \cup {info.m},
                    !.thrown = TRUE,
                    !.log = Append(@, [info EXCEPT !.entered = TRUE])]
    ELSE [ls EXCEPT !.core = renderMessageFast(@, info.m, characterName, cache, pCache),
                    !.log = Append(@, [info EXCEPT !.entered = TRUE])]

\* A throw ends the loop.
LoopStepUnlessThrown(ls, m, time, characterName, cache, pCache, faulty) ==
    IF ls.thrown THEN ls
    ELSE LoopStep(ls, Passed(ls, m, time), characterName, cache, pCache, faulty)

\* The while loop over the elements taken, ended by a throw.
LoopOver(taken, times, characterName, cache, pCache, faultAt) ==
    LET F[i \in 0..Len(taken)] ==
            IF i = 0
            THEN [core |-> [chat |-> chat, processed |-> processedMessages,
                            noTag |-> noImageTagMessages, written |-> <<>>,
                            resolved |-> resolved],
                  rendering |-> rendering, thrown |-> FALSE, log |-> <<>>]
            ELSE LoopStepUnlessThrown(F[i - 1], taken[i], times[i], characterName,
                                      cache, pCache, i = faultAt)
    IN  F[Len(taken)]

\* The end of processBatchRender.  ls: what the loop left; rest, restTimes:
\* the queue after the shifts made; seen: the mutations the observer got;
\* left: isRenderScheduled and the callbacks pending.
LoopEnded(ls, rest, restTimes, seen, left) ==
    /\ left.callbacks <= MaxTicks
    /\ chat' = ls.core.chat
    /\ processedMessages' = ls.core.processed
    /\ noImageTagMessages' = ls.core.noTag
    /\ resolved' = ls.core.resolved
    /\ rendering' = ls.rendering
    /\ renderQueue' = rest
    /\ enqueueTimes' = restTimes
    /\ mutationBatch' = seen.batch
    /\ mutationTimeout' = seen.timeout
    /\ isRenderScheduled' = left.scheduled
    /\ idleCallbacks' = left.callbacks
    /\ lastPassed' = IF ls.log = <<>> THEN lastPassed ELSE ls.log[Len(ls.log)].time
    /\ lastTick' = [passed |-> ls.log, thrown |-> ls.thrown, before |-> lastPassed,
                    left |-> Len(rest), scheduled |-> left.scheduled,
                    callbacks |-> left.callbacks, scrolling |-> isScrolling,
                    active |-> isAssetRenderingActive]
    /\ UNCHANGED <<isAssetRenderingActive, clock>>

\* The loop and the tail of processBatchRender; the callback has already
\* set isRenderScheduled = false when the loop starts.  A throw leaves the
\* function before its tail.
LoopRan(ls, seen) ==
    LoopEnded(ls, Shifted(renderQueue, Len(ls.log)).rest,
              Shifted(enqueueTimes, Len(ls.log)).rest, seen,
              IF ~ls.thrown /\ Len(ls.log) < Len(renderQueue)
              THEN scheduleRender(isAssetRenderingActive, FALSE, isScrolling,
                                  idleCallbacks - 1)
              ELSE [scheduled |-> FALSE, callbacks |-> idleCallbacks - 1])

\* An idle callback of scheduleRender runs: processBatchRender, with the
\* caches built.
LoopTick(budget, faultAt) ==
    /\ idleCallbacks > 0
    /\ cachedCharacterId = characterId /\ assetCache # <<>>
    /\ cachedPersonaName = name1 /\ personaAssetCache # <<>>
    /\ faultAt > 0 => Cardinality(rendering) < MaxFaults
    /\ IF ~isAssetRenderingActive
       THEN /\ isRenderScheduled' = FALSE
            /\ renderQueue' = <<>>
            /\ enqueueTimes' = <<>>
            /\ idleCallbacks' = idleCallbacks - 1
            /\ lastTick' = NoValue
            /\ UNCHANGED <<isAssetRenderingActive, chat, mutationBatch, mutationTimeout,
                           processedMessages, noImageTagMessages, resolved, rendering,
                           clock, lastPassed>>
       ELSE IF isScrolling
       THEN /\ isRenderScheduled' = FALSE
            /\ idleCallbacks' = idleCallbacks - 1
            /\ lastTick' = NoValue
            /\ UNCHANGED <<isAssetRenderingActive, chat, mutationBatch, mutationTimeout,
                           renderQueue, processedMessages, noImageTagMessages, resolved,
                           rendering, enqueueTimes, clock, lastPassed>>
       ELSE LoopRan(
                LoopOver(Shifted(renderQueue, LoopCount(Len(renderQueue), budget)).taken,
                         Shifted(enqueueTimes, LoopCount(Len(renderQueue), budget)).taken,
                         characters[characterId].name, assetCache, personaAssetCache,
                         faultAt),
                ObservedAll(
                    LoopOver(Shifted(renderQueue, LoopCount(Len(renderQueue), budget)).taken,
                             Shifted(enqueueTimes, LoopCount(Len(renderQueue), budget)).taken,
                             characters[characterId].name, assetCache, personaAssetCache,
                             faultAt).core.written,
                    isAssetRenderingActive))
    /\ lastLoop' = NoValue
    /\ scrollStop' = NoValue
    /\ UNCHANGED <<hostVars, serverVars, charCacheVars, personaCacheVars, chatObserver,
                   updateTimer, isScrolling, scrollTimeout, visibilityObserver, ticks,
                   queueAtScroll>>

\* The pushes an action made onto renderQueue get their times.
Stamped ==
    /\ clock + Len(renderQueue') - Len(renderQueue) <= MaxEnqueues
    /\ clock' = clock + Len(renderQueue') - Len(renderQueue)
    /\ enqueueTimes' = enqueueTimes
           \o [i \in 1..(Len(renderQueue') - Len(renderQueue)) |-> clock + i]

\* The host changes the content of message m: a placeholder is appended
\* (streamed text), or the content is replaced by plain text (an edit).
EditedHtml(html, kind) ==
    IF kind = "append" THEN html \o <<TagToken(wave)>> ELSE PlainText
MessageEdited(m, kind) ==
    LET seen == Observed(mutationBatch, mutationTimeout, Mutation(m, FALSE),
                         isAssetRenderingActive)
    IN  /\ m \in DOMAIN chat
        /\ Len(mutationBatch) < MaxMutations
        /\ IF kind = "append"
           THEN ~\E i \in DOMAIN chat[m].html :
                    chat[m].html[i].type # "text" /\ chat[m].html[i].name = wave
           ELSE \E i \in DOMAIN chat[m].html : chat[m].html[i].type # "text"
        /\ chat' = [chat EXCEPT ![m].html = EditedHtml(@, kind)]
        /\ mutationBatch' = seen.batch
        /\ mutationTimeout' = seen.timeout
        /\ lastTick' = NoValue
        /\ UNCHANGED <<hostVars, serverVars, charCacheVars, personaCacheVars,
                       isAssetRenderingActive, chatObserver, queueVars, updateTimer,
                       resolved, tickVars, rendering, enqueueTimes, clock, lastPassed>>

\* The 50 ms mutation timer fires: processMutationBatch, which hands the
\* messages it wants to queueMessageForRenderForce.
MutationTimerFires ==
    LET queue == Queued(renderQueue, MutatedMessages(mutationBatch))
        left  == IF queue # renderQueue
                 THEN scheduleRender(isAssetRenderingActive, isRenderScheduled,
                                     isScrolling, idleCallbacks)
                 ELSE [scheduled |-> isRenderScheduled, callbacks |-> idleCallbacks]
    IN  /\ mutationTimeout
        /\ mutationTimeout' = FALSE
        /\ mutationBatch' = <<>>
        /\ IF isAssetRenderingActive
           THEN /\ left.callbacks <= MaxTicks
                /\ renderQueue' = queue
                /\ isRenderScheduled' = left.scheduled
                /\ idleCallbacks' = left.callbacks
           ELSE UNCHANGED <<renderQueue, isRenderScheduled, idleCallbacks>>
        /\ Stamped
        /\ lastTick' = NoValue
        /\ lastLoop' = NoValue
        /\ scrollStop' = NoValue
        /\ UNCHANGED <<hostVars, serverVars, charCacheVars, personaCacheVars,
                       isAssetRenderingActive, chat, chatObserver, processedMessages,
                       noImageTagMessages, updateTimer, resolved, isScrolling,
                       scrollTimeout, visibilityObserver, ticks, queueAtScroll,
                       rendering, lastPassed>>

\* Ann is selected and her cache and the persona's are built: the first
\* processBatchRender call after the activation built them and found its
\* deadline spent.  initialLoadMessages has queued the messages in view, the
\* last message waits for the IntersectionObserver, an idle callback is
\* pending.
InitLoop ==
    /\ characters = <<Character(Ann, <<SmileRecord>>, <<>>)>>
    /\ characterId = 1
    /\ name1 = Usr
    /\ personas = [n \in PersonaNames |-> <<PersonaWave.asset>>]
    /\ userImages = [n \in CharacterNames |-> <<>>]
    /\ userFiles = <<PersonaWave.file>>
    /\ imagesApi = TRUE
    /\ assetCache = FilledInto(<<>>, RebuiltAssetCache(characters[1]))
    /\ cachedCharacterId = 1
    /\ personaAssetCache = FilledInto(<<>>, RebuiltPersonaAssetCache(Usr))
    /\ cachedPersonaName = Usr
    /\ isAssetRenderingActive = TRUE
    /\ chat = [i \in 1..LoopMessages |-> Mes(LoopText(i))]
    /\ chatObserver = TRUE
    /\ mutationBatch = <<>>
    /\ mutationTimeout = FALSE
    /\ renderQueue = [i \in 1..(LoopMessages - 1) |-> i]
    /\ isRenderScheduled = TRUE
    /\ processedMessages = {}
    /\ noImageTagMessages = {}
    /\ updateTimer = 0
    /\ resolved = NoValue
    /\ BatchInit /\ RequestInit /\ BuildInit /\ PromptInit /\ BackendInit
    /\ CacheEventInit /\ ProbeInit /\ LruInit /\ ViewInit /\ OpInit
    /\ isScrolling = FALSE
    /\ scrollTimeout = FALSE
    /\ visibilityObserver = TRUE
    /\ idleCallbacks = 1
    /\ ticks = <<>>
    /\ lastLoop = NoValue
    /\ queueAtScroll = {}
    /\ scrollStop = NoValue
    /\ rendering = {}
    /\ enqueueTimes = [i \in 1..(LoopMessages - 1) |-> i]
    /\ clock = LoopMessages - 1
    /\ lastPassed = 0
    /\ lastTick = NoValue

\* The messages the host edits, and the positions of the loop at which a
\* resolution may throw (0: none does).
EditedMessages == {2}
FaultPositions == 0..2
NextLoop ==
    \/ \E budget \in LoopBudgets, faultAt \in FaultPositions :
           LoopTick(budget, faultAt) /\ UNCHANGED notLoopVars
    \/ \E m \in EditedMessages, kind \in {"append", "replace"} :
           MessageEdited(m, kind) /\ UNCHANGED notLoopVars
    \/ MutationTimerFires /\ UNCHANGED notLoopVars
    \/ \E m \in DOMAIN chat, recent \in BOOLEAN :
           /\ IntersectionObserved(m, recent)
           /\ Stamped
           /\ lastTick' = NoValue
           /\ UNCHANGED <<rendering, lastPassed>>
           /\ UNCHANGED notLoopVars
    \/ /\ Scroll
       /\ lastTick' = NoValue
       /\ UNCHANGED <<rendering, enqueueTimes, clock, lastPassed>>
       /\ UNCHANGED notLoopVars
    \/ /\ ScrollTimeoutFires
       /\ lastTick' = NoValue
       /\ UNCHANGED <<rendering, enqueueTimes, clock, lastPassed>>
       /\ UNCHANGED notLoopVars

SpecLoop == InitLoop /\ [][NextLoop]_vars

(***************************************************************************)
(* Specification of a scanUserImagesDirectory call: the listing requests,  *)
(* then the HEAD probe with its requests in flight.  The server either has *)
(* no images API (every listing request is answered 404) or has it, and    *)
(* then a listing request is answered with the list, with an error status, *)
(* or fails.                                                               *)
(***************************************************************************)
\* const batchSize = 10;
ProbeBatchSize == 10
\* Array.from(commonNames).slice(0, 50)
ProbeLimit == 50

\* [...new Set(seq)]
UniqueInOrder(seq) ==
    LET Keep(i) == ~\E j \in 1..(i - 1) : seq[j] = seq[i]
        F[i \in 0..Len(seq)] ==
            IF i = 0 THEN <<>>
            ELSE IF Keep(i) THEN Append(F[i - 1], seq[i]) ELSE F[i - 1]
    IN  F[Len(seq)]

\* foldersToTry and uniqueBasePaths (as folders): the name and its
\* sanitized form.
FoldersToTry(characterName) ==
    IF sanitizePathSegment(characterName) # <<>>
       /\ sanitizePathSegment(characterName) # characterName
    THEN <<characterName, sanitizePathSegment(characterName)>>
    ELSE <<characterName>>
UniqueBasePaths(characterName) ==
    UniqueInOrder(<<characterName, sanitizePathSegment(characterName)>>)

\* commonNames: the known names, then the expression names, each with every
\* supported format.
CommonNames(knownNames) == UniqueInOrder(ProbeFilenames(knownNames \o ProbeExpressions))

\* testUrl: if (testedUrls.has(url)) return null;
NeverTested(url, tested) == FALSE
AlreadyTested(url, tested) == url \in tested

\* The URLs of urls that testUrl sends a HEAD request for, in order.
Fetched(urls, tested) ==
    SelectSeq(UniqueInOrder(urls), LAMBDA url : ~AlreadyTested(url, tested))

\* The server answers a HEAD request with 200 when the file is there.
HeadOk(url) ==
    \E f \in scan.files : url = UserImagesUrl(scan.holder, f)

\* The scan goes on to position (base, at) of the phase pc.
ScanAt(pc, base, at) == [scan EXCEPT !.pc = pc, !.base = base, !.at = at]

\* One /api/images/list request (with its retry after a 403) and its answer.
ListingRequested ==
    LET answer == scan.answers[scan.at]
    IN  /\ scan # NoValue
        /\ scan.pc = "list"
        /\ scan' = IF answer = "list"
                   THEN [ScanAt("done", 0, 0) EXCEPT !.asked = Append(@, answer)]
                   ELSE IF answer \in {"404", "throws"}
                           \/ scan.at = Len(FoldersToTry(scan.name))
                   THEN [ScanAt("quick", 1, 1) EXCEPT !.asked = Append(@, answer)]
                   ELSE [ScanAt("list", 0, scan.at + 1) EXCEPT !.asked = Append(@, answer)]
        /\ UNCHANGED <<testedUrls, inFlight, headRequests>>

\* testUrl of the sequential phases: the quick test of a base path, and the
\* test of the first names on every base path when none works.
SequentialUrl ==
    UserImagesUrl(UniqueBasePaths(scan.name)[scan.base],
                  IF scan.pc = "quick" THEN QuickTestNames[scan.at]
                  ELSE CommonNames(scan.known)[scan.at])
SequentialLast ==
    IF scan.pc = "quick" THEN Len(QuickTestNames)
    ELSE Min(Len(CommonNames(scan.known)), ProbeLimit)
\* The loops go on after a test that found nothing.
SequentialNext ==
    IF scan.at < SequentialLast THEN ScanAt(scan.pc, scan.base, scan.at + 1)
    ELSE IF scan.base < Len(UniqueBasePaths(scan.name))
    THEN ScanAt(scan.pc, scan.base + 1, 1)
    ELSE IF scan.pc = "quick" THEN ScanAt("all", 1, 1)
    ELSE ScanAt("done", 0, 0)
SequentialTest ==
    /\ scan # NoValue
    /\ scan.pc \in {"quick", "all"}
    /\ inFlight = {}
    /\ IF AlreadyTested(SequentialUrl, testedUrls)
       THEN /\ scan' = SequentialNext
            /\ UNCHANGED <<testedUrls, inFlight, headRequests>>
       ELSE /\ testedUrls' = testedUrls \cup {SequentialUrl}
            /\ inFlight' = {SequentialUrl}
            /\ headRequests' = Append(headRequests, SequentialUrl)
            /\ UNCHANGED scan

\* A batch of the parallel phase: batch.map(async ...) calls testUrl for
\* every file name of the batch before the first answer is awaited.
BatchUrls ==
    [i \in 1..Min(ProbeBatchSize, Len(CommonNames(scan.known)) + 1 - scan.at) |->
        UserImagesUrl(UniqueBasePaths(scan.name)[scan.base],
                      CommonNames(scan.known)[scan.at + i - 1])]
BatchStarted ==
    /\ scan # NoValue
    /\ scan.pc = "batch"
    /\ inFlight = {}
    /\ IF scan.at > Len(CommonNames(scan.known))
       THEN /\ scan' = ScanAt("done", 0, 0)
            /\ UNCHANGED <<testedUrls, inFlight, headRequests>>
       ELSE /\ scan' = ScanAt("batch", scan.base, scan.at + ProbeBatchSize)
            /\ inFlight' = RangeOf(Fetched(BatchUrls, testedUrls))
            /\ testedUrls' = testedUrls \cup RangeOf(BatchUrls)
            /\ headRequests' = headRequests \o Fetched(BatchUrls, testedUrls)

\* The answer to a HEAD request comes.
HeadAnswered(url) ==
    /\ url \in inFlight
    /\ inFlight' = inFlight \ {url}
    /\ scan' = IF scan.pc = "batch"
               THEN [scan EXCEPT !.found = IF HeadOk(url) THEN @ \cup {url} ELSE @]
               ELSE IF HeadOk(url)
               THEN IF scan.pc = "quick"
                    THEN [ScanAt("batch", scan.base, 1) EXCEPT !.found = @ \cup {url}]
                    ELSE [SequentialNext EXCEPT !.found = @ \cup {url}]
               ELSE SequentialNext
    /\ UNCHANGED <<testedUrls, headRequests>>

\* The servers, the character names and the files of the scans checked.
ProbeNames == {Ann, aSpaceB}
ProbeFiles == SUBSET {smile \o Png, wave \o Png}
ListingAnswers(api, n) ==
    IF api THEN [1..n -> {"list", "error", "throws"}] ELSE {[i \in 1..n |-> "404"]}
InitProbe ==
    /\ InitWith(<<Character(Ann, <<>>, <<>>)>>)
    /\ BatchInit /\ RequestInit /\ BuildInit /\ PromptInit /\ BackendInit /\ TickInit
    /\ CacheEventInit /\ LoopInit /\ LruInit /\ ViewInit /\ OpInit
    /\ \E name \in ProbeNames, files \in ProbeFiles :
       \E holder \in RangeOf(UniqueBasePaths(name)),
          answers \in ListingAnswers(imagesApi, Len(FoldersToTry(name))) :
           scan = [pc |-> "list", base |-> 0, at |-> 1, name |-> name,
                   known |-> <<wave>>, files |-> files, holder |-> holder,
                   answers |-> answers, asked |-> <<>>, found |-> {}]
    /\ testedUrls = {}
    /\ inFlight = {}
    /\ headRequests = <<>>

NextProbe ==
    \/ ListingRequested /\ UNCHANGED notProbeVars
    \/ SequentialTest /\ UNCHANGED notProbeVars
    \/ BatchStarted /\ UNCHANGED notProbeVars
    \/ \E url \in inFlight : HeadAnswered(url) /\ UNCHANGED notProbeVars

SpecProbe == InitProbe /\ [][NextProbe]_vars

(***************************************************************************)
(* The backend's file buffer cache (LruCache)                              *)
(***************************************************************************)
\* maxItems and maxBytes of fileBufferCache (256 and 20 MiB in the source).
MaxItems == 2
MaxBytes == 4
\* The cache keys (relativePath::etag), the buffers and their byte lengths.
LruKeys == 1..3
LruValues == 1..2
LruSizes == 0..(MaxBytes + 1)

LruCache(map, total) == [map |-> map, totalBytes |-> total]

\* Map.prototype.delete
MapDelete(m, k) ==
    IF MapHas(m, k) THEN Without(m, CHOOSE i \in DOMAIN m : m[i].k = k) ELSE m

\* The condition of evict's loop; the mutant looks at the count only.
MustEvictByCount(cache) == Len(cache.map) > MaxItems
MustEvict(cache) == Len(cache.map) > MaxItems \/ cache.totalBytes > MaxBytes

\* evict: the oldest key is the first of the map.  (With an empty map the
\* loop's body changes nothing; the operator stops there.)
RECURSIVE evict(_)
evict(cache) ==
    IF MustEvict(cache) /\ cache.map # <<>>
    THEN evict(LruCache(Tail(cache.map), cache.totalBytes - Head(cache.map).v.bytes))
    ELSE cache

\* get: a hit is deleted and set again, which makes it the newest.
LruGot(cache, key) ==
    IF ~MapHas(cache.map, key)
    THEN cache
    ELSE LruCache(MapSet(MapDelete(cache.map, key), key, MapGet(cache.map, key)),
                  cache.totalBytes)
LruReturned(cache, key) ==
    IF MapHas(cache.map, key) THEN MapGet(cache.map, key).value ELSE NoValue

\* set
LruWithoutPrev(cache, key) ==
    IF MapHas(cache.map, key)
    THEN LruCache(MapDelete(cache.map, key),
                  cache.totalBytes - MapGet(cache.map, key).bytes)
    ELSE cache
LruAdded(cache, key, value, bytes) ==
    LruCache(MapSet(cache.map, key, [value |-> value, bytes |-> bytes]),
             cache.totalBytes + bytes)
LruAfterSet(cache, key, value, bytes) ==
    IF bytes > MaxBytes
    THEN cache
    ELSE evict(LruAdded(LruWithoutPrev(cache, key), key, value, bytes))

LruCalled(op, key, bytes) ==
    [op |-> op, key |-> key, bytes |-> bytes,
     before |-> LruCache(lruMap, totalBytes),
     returned |-> LruReturned(LruCache(lruMap, totalBytes), key)]
LruBecomes(cache) ==
    /\ lruMap' = cache.map
    /\ totalBytes' = cache.totalBytes

LruGet(key) ==
    /\ LruBecomes(LruGot(LruCache(lruMap, totalBytes), key))
    /\ lruCall' = LruCalled("get", key, 0)

LruSet(key, value, bytes) ==
    /\ LruBecomes(LruAfterSet(LruCache(lruMap, totalBytes), key, value, bytes))
    /\ lruCall' = LruCalled("set", key, bytes)

\* readFileCached: a hit is returned; a miss reads the file and sets it.
readFileCached(key, value, bytes) ==
    /\ LruBecomes(IF MapHas(lruMap, key)
                  THEN LruGot(LruCache(lruMap, totalBytes), key)
                  ELSE LruAfterSet(LruCache(lruMap, totalBytes), key, value, bytes))
    /\ lruCall' = LruCalled("read", key, bytes)

InitLru ==
    /\ InitWith(<<Character(Ann, <<>>, <<>>)>>)
    /\ AuxInit

NextLru ==
    \/ \E key \in LruKeys : LruGet(key) /\ UNCHANGED notLruVars
    \/ \E key \in LruKeys, value \in LruValues, bytes \in LruSizes :
           LruSet(key, value, bytes) /\ UNCHANGED notLruVars
    \/ \E key \in LruKeys, value \in LruValues, bytes \in LruSizes :
           readFileCached(key, value, bytes) /\ UNCHANGED notLruVars

SpecLru == InitLru /\ [][NextLru]_vars

(***************************************************************************)
(* Specification of registry writes during a cache build: a tick awaits    *)
(* the listings of buildAssetCache while the asset manager uploads a file  *)
(* or deletes the selected records, each of which saves a new registry     *)
(* array and invalidates the character cache.  The build goes on with the  *)
(* array it read at its start.                                             *)
(***************************************************************************)
\* buildAssetCache after its awaits: the registry it read before them, the
\* listings as the server gives them now.
BuiltInFlight(tick) == FilledInto(assetCache, RebuiltAssetCache(tick.character))

UploadDuringBuild(file, uploadOk) ==
    /\ HandleFileUpload(file, uploadOk)
    /\ UNCHANGED batchVars
    /\ UNCHANGED tickVars
DeleteSelectedDuringBuild(selected, oks) ==
    /\ DeleteBatch(selected, oks)
    /\ UNCHANGED tickVars

InFlightText == <<TagToken(Smile), TagToken(wave)>>
InitInFlight ==
    /\ characters = <<Character(Ann, <<SmileRecord>>, <<>>)>>
    /\ characterId = 1
    /\ name1 = Usr
    /\ personas = [n \in PersonaNames |-> <<PersonaWave.asset>>]
    /\ userImages = [n \in CharacterNames |-> <<>>]
    /\ userFiles = <<PersonaWave.file>>
    /\ imagesApi \in BOOLEAN
    /\ assetCache = <<>>
    /\ cachedCharacterId = NoId
    /\ personaAssetCache = <<>>
    /\ cachedPersonaName = NoValue
    /\ isAssetRenderingActive = TRUE
    /\ chat = <<Mes(InFlightText)>>
    /\ chatObserver = TRUE
    /\ mutationBatch = <<>>
    /\ mutationTimeout = FALSE
    /\ renderQueue = <<1>>
    /\ isRenderScheduled = TRUE
    /\ processedMessages = {}
    /\ noImageTagMessages = {}
    /\ updateTimer = 0
    /\ resolved = NoValue
    /\ BatchInit /\ RequestInit /\ BuildInit /\ PromptInit /\ BackendInit /\ ExtInit
    /\ isScrolling = FALSE
    /\ scrollTimeout = FALSE
    /\ visibilityObserver = TRUE
    /\ idleCallbacks = 1
    /\ ticks = <<>>
    /\ lastLoop = NoValue
    /\ queueAtScroll = {}
    /\ scrollStop = NoValue

NextInFlight ==
    \/ \E budget \in Budgets : IdleCallback(budget) /\ UNCHANGED notTickVars
    \/ \E i \in DOMAIN ticks, budget \in Budgets :
           CharacterBuilt(i, BuiltInFlight(ticks[i]), budget) /\ UNCHANGED notTickVars
    \/ \E i \in DOMAIN ticks, budget \in Budgets :
           /\ PersonaBuilt(i, FilledInto(personaAssetCache,
                                  RebuiltPersonaAssetCache(ticks[i].personaName)),
                           budget)
           /\ UNCHANGED notTickVars
    \/ \E file \in UploadFiles, uploadOk \in BOOLEAN :
           UploadDuringBuild(file, uploadOk) /\ UNCHANGED notBatchVars
    \/ \E selected \in SUBSET (1..MaxAssets), oks \in [1..MaxAssets -> BOOLEAN] :
           DeleteSelectedDuringBuild(selected, oks) /\ UNCHANGED notBatchVars
    \/ /\ CharacterSelected(1)
       /\ lastLoop' = NoValue
       /\ queueAtScroll' = {}
       /\ scrollStop' = NoValue
       /\ UNCHANGED <<isScrolling, scrollTimeout, visibilityObserver, idleCallbacks,
                      ticks>>
       /\ UNCHANGED notTickVars
    \/ UpdateAssetRenderingStateTimer /\ UNCHANGED notTickVars

SpecInFlight == InitInFlight /\ [][NextInFlight]_vars

(***************************************************************************)
(* Specification of lazy loading: both caches are built, message 1 was     *)
(* queued by initialLoadMessages and the messages below the viewport were  *)
(* handed to the IntersectionObserver.  The user scrolls, messages enter   *)
(* and leave the viewport, idle callbacks run.                             *)
(***************************************************************************)
ViewMessages == 3

\* The IntersectionObserver callback with nothing to queue.
EntryIgnored ==
    /\ lastLoop' = NoValue
    /\ scrollStop' = NoValue
    /\ UNCHANGED <<vars0, isScrolling, scrollTimeout, visibilityObserver, idleCallbacks,
                   ticks, queueAtScroll>>

\* Message m, observed, comes to intersect the viewport (with its margin):
\* the browser calls the IntersectionObserver callback with its entry.
\* recent: the last scroll event is less than 50 ms old.  The callback
\* returns before its loop while rendering is off or a scroll is fresh;
\* otherwise the message is queued unless processed or memoized, and is no
\* longer observed.
EntryDropped(recent) == ~isAssetRenderingActive \/ (isScrolling /\ recent)
EntersView(m, recent) ==
    /\ visibilityObserver
    /\ m \in observing
    /\ m \notin inView
    /\ inView' = inView \cup {m}
    /\ IF EntryDropped(recent)
       THEN /\ observing' = observing
            /\ EntryIgnored
       ELSE /\ observing' = observing \ {m}
            /\ IF m \notin processedMessages /\ m \notin noImageTagMessages
                  /\ ~InSeq(renderQueue, m)
               THEN MessageQueued(m, scheduleRender(isAssetRenderingActive,
                                        isRenderScheduled, isScrolling, idleCallbacks))
               ELSE EntryIgnored

\* Message m leaves the viewport: an entry that is not intersecting.
LeavesView(m) ==
    /\ m \in inView
    /\ inView' = inView \ {m}
    /\ observing' = observing
    /\ EntryIgnored

InitView ==
    /\ characters = <<Character(Ann, <<SmileRecord>>, <<>>)>>
    /\ characterId = 1
    /\ name1 = Usr
    /\ personas = [n \in PersonaNames |-> <<PersonaWave.asset>>]
    /\ userImages = [n \in CharacterNames |-> <<>>]
    /\ userFiles = <<PersonaWave.file>>
    /\ imagesApi = TRUE
    /\ assetCache = FilledInto(<<>>, RebuiltAssetCache(characters[1]))
    /\ cachedCharacterId = 1
    /\ personaAssetCache = FilledInto(<<>>, RebuiltPersonaAssetCache(Usr))
    /\ cachedPersonaName = Usr
    /\ isAssetRenderingActive = TRUE
    /\ chat = [i \in 1..ViewMessages |-> Mes(IF i = 2 THEN Text2 ELSE Text1)]
    /\ chatObserver = TRUE
    /\ mutationBatch = <<>>
    /\ mutationTimeout = FALSE
    /\ renderQueue = <<1>>
    /\ isRenderScheduled = TRUE
    /\ processedMessages = {}
    /\ noImageTagMessages = {}
    /\ updateTimer = 0
    /\ resolved = NoValue
    /\ BatchInit /\ RequestInit /\ BuildInit /\ PromptInit /\ BackendInit
    /\ CacheEventInit /\ LoopInit /\ ProbeInit /\ LruInit /\ OpInit
    /\ isScrolling = FALSE
    /\ scrollTimeout = FALSE
    /\ visibilityObserver = TRUE
    /\ idleCallbacks = 1
    /\ ticks = <<>>
    /\ lastLoop = NoValue
    /\ queueAtScroll = {}
    /\ scrollStop = NoValue
    /\ observing = 2..ViewMessages
    /\ inView = {1}

NextView ==
    \/ \E budget \in Budgets :
           IdleCallback(budget) /\ UNCHANGED viewVars /\ UNCHANGED notViewVars
    \/ Scroll /\ UNCHANGED viewVars /\ UNCHANGED notViewVars
    \/ ScrollTimeoutFires /\ UNCHANGED viewVars /\ UNCHANGED notViewVars
    \/ \E m \in DOMAIN chat, recent \in BOOLEAN :
           EntersView(m, recent) /\ UNCHANGED notViewVars
    \/ \E m \in DOMAIN chat : LeavesView(m) /\ UNCHANGED notViewVars

SpecView == InitView /\ [][NextView]_vars

(***************************************************************************)
(* Specification of registry writes while rendering: the state of lazy     *)
(* loading, with the asset manager uploading a file or renaming a record   *)
(* of the current character (saveAssets).  No CHARACTER_SELECTED and no    *)
(* CHAT_CHANGED event occurs.                                              *)
(***************************************************************************)
NextAfterWrite ==
    \/ \E budget \in Budgets :
           IdleCallback(budget) /\ UNCHANGED viewVars /\ UNCHANGED notViewVars
    \/ \E m \in DOMAIN chat, recent \in BOOLEAN :
           EntersView(m, recent) /\ UNCHANGED notViewVars
    \/ \E m \in DOMAIN chat : LeavesView(m) /\ UNCHANGED notViewVars
    \/ \E file \in UploadFiles, uploadOk \in BOOLEAN :
           HandleFileUpload(file, uploadOk) /\ UNCHANGED auxVars
    \/ \E index \in 1..MaxAssets, typed \in TypedNames :
           NameChange(index, typed) /\ UNCHANGED auxVars

SpecAfterWrite == InitView /\ [][NextAfterWrite]_vars

(***************************************************************************)
(* Specification of the render loop left to itself: the state of the       *)
(* render loop with no host edit, no scroll and no throw.  The only        *)
(* mutations are those of the resolver's own patches.                      *)
(***************************************************************************)
\* The messages a deadline may leave time for.
QuietBudgets == (0..3) \cup {NoDeadline}

\* The first message holds a placeholder and an unmatched '%%img:', the
\* second a placeholder, the third an unmatched '%%img:' only, the last,
\* below the viewport, a placeholder of the persona's asset.
QuietText(i) ==
    IF i = 1 THEN <<TagToken(Smile), UnmatchedTag>>
    ELSE IF i = 2 THEN <<TagToken(smile)>>
    ELSE IF i = 3 THEN <<UnmatchedTag>>
    ELSE IF i = LoopMessages THEN <<TagToken(wave)>>
    ELSE PlainText
InitQuiet ==
    /\ characters = <<Character(Ann, <<SmileRecord>>, <<>>)>>
    /\ characterId = 1
    /\ name1 = Usr
    /\ personas = [n \in PersonaNames |-> <<PersonaWave.asset>>]
    /\ userImages = [n \in CharacterNames |-> <<>>]
    /\ userFiles = <<PersonaWave.file>>
    /\ imagesApi = TRUE
    /\ assetCache = FilledInto(<<>>, RebuiltAssetCache(characters[1]))
    /\ cachedCharacterId = 1
    /\ personaAssetCache = FilledInto(<<>>, RebuiltPersonaAssetCache(Usr))
    /\ cachedPersonaName = Usr
    /\ isAssetRenderingActive = TRUE
    /\ chat = [i \in 1..LoopMessages |-> Mes(QuietText(i))]
    /\ chatObserver = TRUE
    /\ mutationBatch = <<>>
    /\ mutationTimeout = FALSE
    /\ renderQueue = [i \in 1..(LoopMessages - 1) |-> i]
    /\ isRenderScheduled = TRUE
    /\ processedMessages = {}
    /\ noImageTagMessages = {}
    /\ updateTimer = 0
    /\ resolved = NoValue
    /\ BatchInit /\ RequestInit /\ BuildInit /\ PromptInit /\ BackendInit
    /\ CacheEventInit /\ ProbeInit /\ LruInit /\ ViewInit /\ OpInit
    /\ isScrolling = FALSE
    /\ scrollTimeout = FALSE
    /\ visibilityObserver = TRUE
    /\ idleCallbacks = 1
    /\ ticks = <<>>
    /\ lastLoop = NoValue
    /\ queueAtScroll = {}
    /\ scrollStop = NoValue
    /\ rendering = {}
    /\ enqueueTimes = [i \in 1..(LoopMessages - 1) |-> i]
    /\ clock = LoopMessages - 1
    /\ lastPassed = 0
    /\ lastTick = NoValue
QuietTick(budget) == LoopTick(budget, 0) /\ UNCHANGED notLoopVars
QuietMutationTimer == MutationTimerFires /\ UNCHANGED notLoopVars
NextQuiet ==
    \/ \E budget \in QuietBudgets : QuietTick(budget)
    \/ QuietMutationTimer
    \/ \E m \in DOMAIN chat, recent \in BOOLEAN :
           /\ IntersectionObserved(m, recent)
           /\ Stamped
           /\ lastTick' = NoValue
           /\ UNCHANGED <<rendering, lastPassed>>
           /\ UNCHANGED notLoopVars

SpecQuiet == InitQuiet /\ [][NextQuiet]_vars

(***************************************************************************)
(* Specification of deleting: the popup's uploads, imports and deletes,    *)
(* with files appearing in user/images.  A delete leaves in cacheEvent the *)
(* records it removed.                                                     *)
(***************************************************************************)
Deleted(assets) == [kind |-> "delete", scope |-> "character", assets |-> assets]

DeleteButton(index) ==
    /\ DeleteAsset(index)
    /\ cacheEvent' = Deleted({getAssetsRaw(CurrentCharacter)[index]})
    /\ UNCHANGED notCacheEventVars
DeleteSelectedButton(selected, oks) ==
    /\ DeleteBatch(selected, oks)
    /\ cacheEvent' = Deleted({getAssetsRaw(CurrentCharacter)[i] : i \in selected})
    /\ UNCHANGED <<requestVars, buildVars, promptVars, backendVars, tickVars,
                   loopVars, probeVars, lruVars, viewVars, opVars>>
NextDelete ==
    \/ \E file \in UploadFiles, uploadOk \in BOOLEAN :
        HandleFileUpload(file, uploadOk) /\ cacheEvent' = NoValue /\ UNCHANGED notCacheEventVars
    \/ ImportUserImages /\ cacheEvent' = NoValue /\ UNCHANGED notCacheEventVars
    \/ \E file \in PlacedFiles :
        PlaceImageFile(file) /\ cacheEvent' = NoValue /\ UNCHANGED notCacheEventVars
    \/ \E index \in 1..MaxAssets : DeleteButton(index)
    \/ \E selected \in SUBSET (1..MaxAssets), oks \in [1..MaxAssets -> BOOLEAN] :
        DeleteSelectedButton(selected, oks)
SpecDelete == Init /\ [][NextDelete]_vars

(***************************************************************************)
(* Specification of the popup handlers' order: an upload, a delete or a    *)
(* migration of the current character's popup, from the click through the  *)
(* answers of the storage backend to the end of the handler.  Each         *)
(* invalidateAssetCache() call leaves in lastInvalidate where the handler  *)
(* stood: the requests not yet answered and whether writeExtensionField    *)
(* has been called for the registry the handler is about to save.          *)
(***************************************************************************)
Operation(kind, arg, pending) ==
    [kind |-> kind, arg |-> arg, pending |-> pending, ok |-> FALSE,
     written |-> FALSE, returned |-> FALSE]
InvalidatedAt(op, line) ==
    [kind |-> op.kind, pending |-> op.pending, written |-> op.written, line |-> line]
LegacyCount(assets) == Cardinality({i \in DOMAIN assets : IsLegacyRecord(assets[i])})

\* handleFileUpload up to its await of the uploads.
UploadClicked(file) ==
    /\ operation = NoValue
    /\ Len(getAssetsRaw(CurrentCharacter)) < MaxAssets
    /\ operation' = Operation("upload", file, 1)
    /\ lastInvalidate' = NoValue
    /\ UNCHANGED vars0

\* The delete button up to its await of deleteImageFile; a legacy record
\* has no file to delete.
DeleteClicked(index) ==
    /\ operation = NoValue
    /\ index \in DOMAIN getAssetsRaw(CurrentCharacter)
    /\ operation' = Operation("delete", index,
           IF getAssetsRaw(CurrentCharacter)[index].filename # NoValue
              /\ ~IsLegacyRecord(getAssetsRaw(CurrentCharacter)[index])
           THEN 1 ELSE 0)
    /\ lastInvalidate' = NoValue
    /\ UNCHANGED vars0

\* The "Migrate now" link up to migrateLegacyAssets' first saveImageFile.
MigrateClicked ==
    /\ operation = NoValue
    /\ LegacyCount(getAssetsRaw(CurrentCharacter)) > 0
    /\ operation' = Operation("migrate", 0, LegacyCount(getAssetsRaw(CurrentCharacter)))
    /\ lastInvalidate' = NoValue
    /\ UNCHANGED vars0

\* The storage backend answers a request of the handler.
BackendAnswers(ok) ==
    /\ operation # NoValue
    /\ operation.pending > 0
    /\ operation' = [operation EXCEPT !.pending = @ - 1, !.ok = @ \/ ok]
    /\ UNCHANGED lastInvalidate
    /\ UNCHANGED vars0

\* The end of migrateLegacyAssets: if (successCount > 0) invalidateAssetCache(),
\* before the function returns to the click handler that saves the registry.
MigrationReturns ==
    /\ operation # NoValue
    /\ operation.kind = "migrate"
    /\ operation.pending = 0
    /\ ~operation.returned
    /\ operation' = [operation EXCEPT !.returned = TRUE]
    /\ IF operation.ok
       THEN /\ InvalidateAssetCache
            /\ lastInvalidate' = InvalidatedAt(operation, 1363)
       ELSE UNCHANGED <<charCacheVars, personaCacheVars, isAssetRenderingActive,
                        lastInvalidate>>
    /\ UNCHANGED <<hostVars, serverVars, domVars, queueVars, updateTimer, resolved>>

\* Whether handleFileUpload writes a registry: a file was uploaded, or the
\* auto-sync of initializeAssetList changes the registry.
UploadWrites(file, uploadOk) ==
    \/ ~HasNamed(getAssetsRaw(CurrentCharacter), BaseOf(file)) /\ uploadOk
    \/ AfterAssetList(CurrentCharacter, userImages, userFiles) # CurrentCharacter

\* The rest of the handler after its last answer: saveAssets, that is
\* writeExtensionField and then invalidateAssetCache(), and the refresh of
\* the list.
HandlerRuns(op) ==
    IF op.kind = "upload" THEN HandleFileUpload(op.arg, op.ok)
    ELSE IF op.kind = "delete" THEN DeleteAsset(op.arg)
    ELSE MigrateLegacy
HandlerWrites(op) ==
    IF op.kind = "upload" THEN UploadWrites(op.arg, op.ok)
    ELSE IF op.kind = "delete" THEN TRUE
    ELSE op.ok
HandlerEnds ==
    /\ operation # NoValue
    /\ operation.pending = 0
    /\ operation.kind = "migrate" => operation.returned
    /\ operation' = NoValue
    /\ IF HandlerWrites(operation)
       THEN /\ HandlerRuns(operation)
            /\ lastInvalidate' = InvalidatedAt([operation EXCEPT !.written = TRUE], 2170)
       ELSE UNCHANGED vars0 /\ lastInvalidate' = NoValue

NextOps ==
    \/ \E file \in UploadFiles : UploadClicked(file) /\ UNCHANGED notOpVars
    \/ \E index \in 1..MaxAssets : DeleteClicked(index) /\ UNCHANGED notOpVars
    \/ MigrateClicked /\ UNCHANGED notOpVars
    \/ \E ok \in BOOLEAN : BackendAnswers(ok) /\ UNCHANGED notOpVars
    \/ MigrationReturns /\ UNCHANGED notOpVars
    \/ HandlerEnds /\ UNCHANGED notOpVars
SpecOps == Init /\ [][NextOps]_vars

(***************************************************************************)
(* Properties                                                              *)
(***************************************************************************)
\* The registry of the current character, and the tokens of the last
\* resolution that were placeholders.
Registry == getAssetsRaw(characters[characterId])
ResolvedTags == IF resolved = NoValue THEN {}
                ELSE {i \in DOMAIN resolved.text : resolved.text[i].type = "tag"}
ImgOf(assetName, src) == ImgToken(EscapeName(trim(assetName)), src)

\* C1: a placeholder whose name matches no key of the character cache or
\* the persona cache under any lookup tier is left in the output as the
\* original token.
C1_MissLeftVerbatim ==
    \A i \in ResolvedTags :
        CacheLookup(resolved.text[i].name, assetCache, personaAssetCache) = NoValue
            => resolved.out[i] = resolved.text[i]

\* C2: for every record of a scope's registry, once the scope's cache is
\* built, the display name, its sanitized form, its canonical key and its
\* lowercase form all resolve to the location cached for that record.
Spellings(name) ==
    {name, sanitizeFilename(name), getCanonicalAssetKey(name), toLowerCase(name)}
C2_AllSpellingsResolve ==
    resolved # NoValue =>
        /\ \A j \in DOMAIN Registry : \A sp \in Spellings(Registry[j].name) :
              /\ MapHas(assetCache, Registry[j].name)
              /\ CacheLookup(sp, assetCache, <<>>) = MapGet(assetCache, Registry[j].name)
        /\ \A j \in DOMAIN personas[name1] : \A sp \in Spellings(personas[name1][j].name) :
              /\ MapHas(personaAssetCache, personas[name1][j].name)
              /\ CacheLookup(sp, <<>>, personaAssetCache)
                    = MapGet(personaAssetCache, personas[name1][j].name)

\* C3: the persona cache supplies a placeholder's location only when the
\* character cache has no hit at the tier that found it.
CharacterHitAt(tier, trimmedName) ==
    \/ tier = "exact" /\ ExactLookup(assetCache, Candidates(trimmedName)) # NoValue
    \/ tier = "sanitized"
       /\ \E c \in RangeOf(Candidates(trimmedName)) : MapHas(assetCache, sanitizeFilename(c))
    \/ tier = "canonical"
       /\ \E c \in RangeOf(Candidates(trimmedName)) : MapHas(assetCache, getCanonicalAssetKey(c))
    \/ tier = "scan" /\ ScanLookup(assetCache, toLowerCase(trimmedName)) # NoValue
C3_CharacterCacheFirst ==
    \A i \in ResolvedTags :
        LookupTrace(resolved.text[i].name, assetCache, personaAssetCache).scope = "persona"
            => ~CharacterHitAt(
                   LookupTrace(resolved.text[i].name, assetCache, personaAssetCache).tier,
                   trim(resolved.text[i].name))

\* C4: a write that adds the record {wave, /a/wave.png} clears the built
\* character cache, which did not resolve the placeholder wave before the
\* write, and every resolution made while the record is in the registry
\* replaces the placeholder wave by an image at /a/wave.png.
WaveUrl == ManualUrl(wave \o Png)
HasWave(assets) ==
    \E j \in DOMAIN assets : assets[j].name = wave /\ assets[j].url = WaveUrl
WaveAdded == ~HasWave(Registry) /\ HasWave(getAssetsRaw(characters'[characterId]))
Resolution == resolved' # NoValue /\ resolved' # resolved
C4_WriteThenRebuildHits ==
    [][/\ WaveAdded =>
            /\ CacheLookup(wave, assetCache, personaAssetCache) = NoValue
            /\ assetCache' = <<>>
            /\ cachedCharacterId' = NoId
       /\ (Resolution /\ HasWave(Registry)) =>
            /\ CacheLookup(wave, assetCache', personaAssetCache') = WaveUrl
            /\ \A i \in DOMAIN resolved'.text :
                  resolved'.text[i] = TagToken(wave)
                      => resolved'.out[i] = ImgOf(wave, WaveUrl)]_vars
C4_Witness ==
    /\ resolved # NoValue
    /\ HasWave(Registry)
    /\ \E i \in ResolvedTags :
          resolved.text[i] = TagToken(wave) /\ resolved.out[i] = ImgOf(wave, WaveUrl)

\* C5: a step that writes a character registry leaves the persona cache and
\* its marker unchanged, and a step that writes a persona registry leaves
\* the character cache and its marker unchanged.
C5_ScopesIndependent ==
    [][/\ characters' # characters => UNCHANGED personaCacheVars
       /\ personas' # personas => UNCHANGED charCacheVars]_vars
C5_Witness ==
    /\ personaAssetCache # <<>>
    /\ cachedPersonaName = name1
    /\ assetCache = <<>>
    /\ cachedCharacterId = NoId
    /\ Registry # <<>>
    /\ ~isAssetRenderingActive
    /\ updateTimer = 0

\* C6: when a canonical key is supplied both by a flat or legacy source and
\* by the per-character image folder, a rebuilt character cache holds the
\* image folder's location under that key.
PreferredEntries ==
    scanUserImagesDirectory(characters[characterId].name, Names(Registry),
                            imagesApi, userImages[characters[characterId].name])
FlatRecords ==
    {j \in DOMAIN Registry :
        \A e \in RangeOf(PreferredEntries) : Registry[j].url # e.url}
FlatListing ==
    FlatEntries(getCharacterFilePrefix(characters[characterId].name), userFiles,
                LAMBDA f : extractAssetName(f, characters[characterId].name))
FlatKeys ==
    {getCanonicalAssetKey(Registry[j].name) : j \in FlatRecords}
        \cup {getCanonicalAssetKey(e.name) : e \in RangeOf(FlatListing)}
PreferredWins(cache) ==
    \A e \in RangeOf(PreferredEntries) :
        getCanonicalAssetKey(e.name) \in FlatKeys
            => \E e2 \in RangeOf(PreferredEntries) :
                  /\ getCanonicalAssetKey(e2.name) = getCanonicalAssetKey(e.name)
                  /\ MapGet(cache, getCanonicalAssetKey(e.name)) = e2.url
C6_PreferredStorageWins ==
    [][(assetCache' # assetCache /\ assetCache' # <<>>) => PreferredWins(assetCache')]_vars

CaseVariantOf(placeholder, record) ==
    /\ trim(placeholder) # record.name
    /\ toLowerCase(trim(placeholder)) = toLowerCase(record.name)
NoOwnKey(placeholder) ==
    \A c \in RangeOf(Candidates(trim(placeholder))) : \A k \in {c, sanitizeFilename(c)} :
        ~MapHas(assetCache, k) /\ ~MapHas(personaAssetCache, k)
OnlyRecordFor(j, placeholder) ==
    \A c \in RangeOf(Candidates(trim(placeholder))) : \A j2 \in DOMAIN Registry \ {j} :
        getCanonicalAssetKey(c) \notin Spellings(Registry[j2].name)
NoCaseDuplicates(assets) ==
    \A i, j \in DOMAIN assets :
        i # j => toLowerCase(assets[i].name) # toLowerCase(assets[j].name)
C10_NoCaseInsensitiveDuplicates ==
    /\ \A c \in DOMAIN characters : NoCaseDuplicates(getAssetsRaw(characters[c]))
    /\ \A p \in PersonaNames : NoCaseDuplicates(personas[p])

\* C9: a placeholder of a message in the chat that only a persona asset
\* matches is eventually replaced, whichever character is current and
\* whether or not that character has assets of its own: once no timer and
\* no idle callback of the extension is pending, so that nothing more will
\* run until the host's next event, no such placeholder is left.
FreshCharacterCache ==
    BuildAssetCacheMap(
        Registry,
        ListedOrNone(listCharacterImages(characters[characterId].name, imagesApi, TRUE,
                        userImages[characters[characterId].name], userFiles,
                        characters[characterId].inline_image_assets,
                        LegacyOf(characters[characterId]))),
        PreferredEntries)
FreshPersonaCache ==
    BuildPersonaAssetCacheMap(getPersonaAssetsRaw(name1),
                              listPersonaImages(name1, TRUE, userFiles))
PersonaOnly(assetName) ==
    /\ CacheLookup(assetName, FreshCharacterCache, <<>>) = NoValue
    /\ CacheLookup(assetName, <<>>, FreshPersonaCache) # NoValue
PersonaOnlyPending ==
    \E m \in DOMAIN chat : \E i \in DOMAIN chat[m].html :
        chat[m].html[i].type = "tag" /\ PersonaOnly(chat[m].html[i].name)
AtRest == updateTimer = 0 /\ ~mutationTimeout /\ ~isRenderScheduled
C9_PersonaFallbackShown == AtRest => ~PersonaOnlyPending

\* C11: no write gives a registry two records with the same canonical key
\* (the upload or rename that would create the second one is refused and
\* leaves the registry unchanged): after any sequence of writes every
\* registry is free of such a pair.
NoCanonicalDuplicates(assets) ==
    \A i, j \in DOMAIN assets :
        i # j => getCanonicalAssetKey(assets[i].name) # getCanonicalAssetKey(assets[j].name)
C11_CollidingWriteRefused ==
    /\ \A c \in DOMAIN characters : NoCanonicalDuplicates(getAssetsRaw(characters[c]))
    /\ \A p \in PersonaNames : NoCanonicalDuplicates(personas[p])

\* C12: a batch reports one outcome for every file it was given (uploaded,
\* failed or skipped add up to the files submitted, every file that was not
\* skipped was attempted; deleted and failed add up to the files to delete),
\* and after a batch upload in which no upload succeeded the registries are
\* the ones the handler found.
UploadCountsAddUp ==
    uploadReport # NoValue =>
        /\ uploadReport.successfulUploads + uploadReport.failedUploads
             + uploadReport.skippedUploads = uploadReport.submitted
        /\ uploadReport.attempted = uploadReport.submitted - uploadReport.skippedUploads
DeleteCountsAddUp ==
    deleteReport # NoValue =>
        deleteReport.success + deleteReport.failed = deleteReport.submitted
NothingUploaded ==
    /\ uploadReport # NoValue
    /\ uploadReport.attempted > 0
    /\ uploadReport.successfulUploads = 0
C12_BatchCountsAndNoWrite ==
    /\ UploadCountsAddUp
    /\ DeleteCountsAddUp
    /\ NothingUploaded =>
          /\ characters = uploadReport.characters
          /\ personas = uploadReport.personas

\* C13: in the log of a call, a mutating request answered 403 is followed by
\* a request for a fresh token and then by the same request once more,
\* carrying the token that was fetched; no request is sent more than twice,
\* and a second send happens only in that way.  When the retry is answered
\* 403 too, an upload has thrown, and a delete returns true only for a later
\* request the server accepted.
IsMutating(entry) == entry.url # "/csrf-token"
SameRequest(a, b) == a.url = b.url /\ a.body = b.body
SentBefore(i) == \E j \in 1..(i - 1) : SameRequest(requestLog[j], requestLog[i])
IsRetryOf(j, i) ==
    /\ j = i + 2
    /\ requestLog[i].status = 403
    /\ requestLog[i + 1].url = "/csrf-token"
    /\ IF ResponseOk(requestLog[i + 1].status)
       THEN \A k \in 1..(j - 1) : requestLog[k].token < requestLog[j].token
       ELSE requestLog[j].token = 0
NeverSentThrice ==
    \A i \in DOMAIN requestLog :
        IsMutating(requestLog[i]) =>
            Cardinality({ j \in DOMAIN requestLog :
                            SameRequest(requestLog[j], requestLog[i]) }) <= 2
SecondSendIsRetry ==
    \A i, j \in DOMAIN requestLog :
        (/\ i < j /\ IsMutating(requestLog[i])
         /\ SameRequest(requestLog[i], requestLog[j])) => IsRetryOf(j, i)
Every403Retried ==
    \A i \in DOMAIN requestLog :
        (/\ IsMutating(requestLog[i]) /\ requestLog[i].status = 403
         /\ ~SentBefore(i) /\ (call = NoValue \/ i + 2 <= Len(requestLog)))
        => /\ i + 2 <= Len(requestLog)
           /\ SameRequest(requestLog[i + 2], requestLog[i])
RetryRejectedAt(j) ==
    /\ j \in DOMAIN requestLog
    /\ IsMutating(requestLog[j]) /\ SentBefore(j) /\ requestLog[j].status = 403
RejectedTwiceFails ==
    \A j \in DOMAIN requestLog :
        (RetryRejectedAt(j) /\ call = NoValue) =>
            /\ callResult \in {"saved to user/images", "saved to user/files"} => FALSE
            /\ callResult = "true" =>
                  /\ j < Len(requestLog)
                  /\ ResponseOk(requestLog[Len(requestLog)].status)
C13_RetryOnceThenFail ==
    /\ NeverSentThrice
    /\ SecondSendIsRetry
    /\ Every403Retried
    /\ RejectedTwiceFails
C13_Witness ==
    /\ call = NoValue
    /\ callResult = "threw"
    /\ RetryRejectedAt(Len(requestLog))
    /\ requestLog[Len(requestLog)].token > 0

\* C14: a cache built while one source was failing holds a key for the name
\* of every record of the registry and of every entry the other sources
\* listed during that build.
OkImagesList == imagesApi /\ "images list" \notin lastBuild.failed
OkFlatList == "flat list" \notin lastBuild.failed
OkScanList == imagesApi /\ "scan list" \notin lastBuild.failed
OkProbe == ~OkScanList /\ "probe" \notin lastBuild.failed
ImagesFolderNames(character) ==
    NameSet(ImagesApiEntries(character.name, userImages[character.name]))
Supplied(character) ==
    NameSet(getAssetsRaw(character))
    \cup (IF OkImagesList \/ OkScanList THEN ImagesFolderNames(character) ELSE {})
    \cup (IF OkFlatList THEN NameSet(FlatListing) ELSE {})
    \cup (IF OkProbe
          THEN NameSet(ProbeUserImages(character.name, Names(getAssetsRaw(character)),
                                       userImages[character.name]))
          ELSE {})
BuiltWhileFailing == lastBuild # NoValue /\ lastBuild.failed # {}
C14_FailingSourceOnlyLosesItsOwn ==
    BuiltWhileFailing =>
        \A name \in Supplied(CurrentCharacter) : MapHas(assetCache, name)
C14_Witness ==
    /\ BuiltWhileFailing
    /\ lastBuild.failed = {"flat list"}
    /\ Supplied(CurrentCharacter) # NameSet(getAssetsRaw(CurrentCharacter))
    /\ resolved # NoValue

\* C15: when the names handed to compressAssetNames all end in an integer
\* after one base and separator, the result has exactly one entry for every
\* maximal run of consecutive integers among them: the range
\* base<sep>start~end, or the quoted name of an integer that stands alone.
Series == [i \in DOMAIN promptNames |-> parseAssetNameForCompression(promptNames[i])]
OneSeries ==
    /\ promptNames # <<>>
    /\ \A i \in DOMAIN Series : Series[i].hasNumber /\ NumKey(Series[i]) = NumKey(Series[1])
Present == { Series[i].num : i \in DOMAIN Series }
MaximalRuns ==
    { run \in (Present \X Present) :
        /\ run[1] <= run[2]
        /\ \A n \in run[1]..run[2] : n \in Present
        /\ run[1] - 1 \notin Present
        /\ run[2] + 1 \notin Present }
EntriesFor(run) ==
    IF run[1] = run[2]
    THEN { Quoted(Series[i].original) : i \in { k \in DOMAIN Series : Series[k].num = run[1] } }
    ELSE { Quoted(Series[1].base \o Series[1].separator \o NumberToString(run[1])
                  \o <<"~">> \o NumberToString(run[2])) }
C15_OneEntryPerMaximalRun ==
    (OneSeries /\ compressed # <<>>) =>
        /\ Len(compressed) = Cardinality(MaximalRuns)
        /\ \A run \in MaximalRuns :
              \E i \in DOMAIN compressed : compressed[i] \in EntriesFor(run)
\* The example of the claim: happy_1, happy_2, happy_3, happy_5.
GapExample ==
    << happy \o <<"_", "1">>, happy \o <<"_", "2">>,
       happy \o <<"_", "3">>, happy \o <<"_", "5">> >>
GapExampleCompressed ==
    (promptNames = GapExample /\ compressed # <<>>) =>
        compressed = << Quoted(happy \o <<"_", "1", "~", "3">>),
                        Quoted(happy \o <<"_", "5">>) >>

\* C16: a path check that did not fail with E_BAD_PATH returned a path that
\* lies below EXTENSION_DIR (on its drive, with the directory's segments as
\* a proper prefix), and resolveSafePath fails for every input that has a
\* ".." or "." segment or starts with a drive letter, a colon and a slash.
StrictlyInside(dir, abs) ==
    /\ toLowerCase(abs.device) = toLowerCase(dir.device)
    /\ Len(abs.segments) > Len(dir.segments)
    /\ SubSeq(abs.segments, 1, Len(dir.segments)) = dir.segments
    /\ \A i \in DOMAIN abs.segments : abs.segments[i] \notin { <<>>, <<".">>, <<".", ".">> }
RawSegments == Split(requestPath, {"/", "\\"})
RawDrivePath ==
    /\ Len(requestPath) >= 3
    /\ IsLetter(requestPath[1]) /\ requestPath[2] = ":" /\ requestPath[3] \in {"/", "\\"}
C16_ResolvedInsideExtensionDir ==
    pathResult.code = "ok" =>
        /\ StrictlyInside(extensionDir, pathResult.absPath)
        /\ ~HasTraversalSegment(RawSegments)
        /\ pathResult.route = "file" => ~RawDrivePath
C16_Witness ==
    /\ pathResult.code = "ok"
    /\ pathResult.route = "file"
    /\ extensionDir.win32
    /\ DeviceOf(requestPath) # <<>>

\* C17: no two cache builds of one scope are in flight at once: of the
\* processBatchRender calls awaiting a build, no two await the character
\* cache of the same character or the persona cache of the same persona
\* (the second would have queried the sources the first is waiting for).
SameBuild(a, b) ==
    /\ a.pc = b.pc
    /\ IF a.pc = "characterBuild" THEN a.characterId = b.characterId
       ELSE a.personaName = b.personaName
C17_BuildsNotReentrant ==
    \A i, j \in DOMAIN ticks : i # j => ~SameBuild(ticks[i], ticks[j])

\* C18: the render loop writes a container only for the character that is
\* selected when it runs and from a cache marked for that character: a tick
\* started before a scope switch patches nothing after it.
C18_NoPatchFromAbandonedScope ==
    (lastLoop # NoValue /\ lastLoop.written # <<>>) =>
        /\ lastLoop.by = lastLoop.selected
        /\ lastLoop.marked = lastLoop.selected

\* C19: while the scrolling state is set no container is dequeued from
\* renderQueue, not even by a tick that was awaiting a cache build when the
\* scroll event came.
C19_NothingDequeuedWhileScrolling ==
    (lastLoop # NoValue /\ lastLoop.scrolling) => lastLoop.dequeued = <<>>

\* C20: when the scroll-stop timer fires, every container that was queued
\* when the scroll events came is still queued, and with a queue that is
\* not empty and rendering active an idle callback is pending.
C20_ScrollKeepsQueueAndResumes ==
    scrollStop # NoValue =>
        /\ scrollStop.lost = {}
        /\ scrollStop.waiting => scrollStop.callbacks > 0


\* C21: once the timers of a switch have fired, a current character with no
\* registered asset leaves the render machine idle: rendering is not active
\* and the mutation observer is not attached to the chat.
C21_IdleWithoutAssets ==
    (~checkCharacterHasAssets /\ updateTimer = 0) =>
        (~isAssetRenderingActive /\ ~chatObserver)


\* C29: the tier that supplies a placeholder's location is the earliest of
\* exact, sanitized, canonical and case-insensitive scan that has a hit for
\* some candidate in some cache.
TierOrder == <<"exact", "sanitized", "canonical", "scan">>
TierHasHit(tier, trimmedName) ==
    \/ tier = "exact"
       /\ \E c \in RangeOf(Candidates(trimmedName)) :
              MapHas(assetCache, c) \/ MapHas(personaAssetCache, c)
    \/ tier = "sanitized"
       /\ \E c \in RangeOf(Candidates(trimmedName)) :
              \/ MapHas(assetCache, sanitizeFilename(c))
              \/ MapHas(personaAssetCache, sanitizeFilename(c))
    \/ tier = "canonical"
       /\ \E c \in RangeOf(Candidates(trimmedName)) :
              \/ MapHas(assetCache, getCanonicalAssetKey(c))
              \/ MapHas(personaAssetCache, getCanonicalAssetKey(c))
    \/ tier = "scan"
       /\ \/ ScanLookup(assetCache, toLowerCase(trimmedName)) # NoValue
          \/ ScanLookup(personaAssetCache, toLowerCase(trimmedName)) # NoValue
EarliestTier(trimmedName) ==
    IF \E k \in DOMAIN TierOrder : TierHasHit(TierOrder[k], trimmedName)
    THEN TierOrder[CHOOSE k \in DOMAIN TierOrder :
                       /\ TierHasHit(TierOrder[k], trimmedName)
                       /\ \A j \in 1..(k - 1) : ~TierHasHit(TierOrder[j], trimmedName)]
    ELSE "none"
C29_EarliestTierWins ==
    \A i \in ResolvedTags :
        LookupTrace(resolved.text[i].name, assetCache, personaAssetCache).tier
            = EarliestTier(trim(resolved.text[i].name))


\* C27: a container memoized as holding no placeholder, and still holding
\* none, is not in renderQueue.
C27_MemoizedNotQueuedAgain ==
    \A m \in noImageTagMessages :
        (m \in DOMAIN chat /\ ~HasImgTag(chat[m].html)) => ~InSeq(renderQueue, m)


\* C23: when a write to a scope's registry, a switch of the scope or a click
\* on the refresh button has been handled, that scope's cache is empty and
\* its marker is null: nothing is left for a later lookup to read.
ClearsCharacterCache ==
    /\ cacheEvent # NoValue
    /\ cacheEvent.kind \in {"write", "switch", "refresh"}
    /\ cacheEvent.scope = "character"
ClearsPersonaCache ==
    /\ cacheEvent # NoValue
    /\ cacheEvent.kind \in {"write", "switch"}
    /\ cacheEvent.scope = "persona"
C23_EventsClearTheCache ==
    /\ ClearsCharacterCache => (assetCache = <<>> /\ cachedCharacterId = NoId)
    /\ ClearsPersonaCache => (personaAssetCache = <<>> /\ cachedPersonaName = NoValue)


\* C22: a resolution that throws does not leave processBatchRender by the
\* throw, the elements still queued get their tick, and no element is left
\* with dataset.rendering set.
C22_FaultContained ==
    /\ rendering = {}
    /\ lastTick # NoValue =>
           /\ ~lastTick.thrown
           /\ (lastTick.left > 0 /\ ~lastTick.scrolling /\ lastTick.active)
                  => (lastTick.scheduled /\ lastTick.callbacks > 0)

\* C24: the elements handed to renderMessageFast, within a processBatchRender
\* call and from one call to the next, are handed over in the order they
\* were pushed onto renderQueue.
PassedBefore(i) == IF i = 1 THEN lastTick.before ELSE lastTick.passed[i - 1].time
C24_QueueIsFifo ==
    lastTick # NoValue =>
        \A i \in DOMAIN lastTick.passed : PassedBefore(i) < lastTick.passed[i].time
C24_Witness ==
    /\ lastTick # NoValue
    /\ lastTick.before > 0
    /\ Len(lastTick.passed) >= 2
    /\ lastTick.passed[Len(lastTick.passed)].time > LoopMessages

\* C25: a processBatchRender call takes at most BATCH_SIZE elements from
\* renderQueue, and when it leaves elements queued while rendering is active
\* and the user is not scrolling, an idle callback is pending after it.
C25_BatchBounded ==
    lastTick # NoValue =>
        /\ Len(lastTick.passed) <= BATCH_SIZE
        /\ (lastTick.left > 0 /\ ~lastTick.scrolling /\ lastTick.active)
               => (lastTick.scheduled /\ lastTick.callbacks > 0)

\* C26: an element whose dataset.rendering is set when it is handed to
\* renderMessageFast is left at the first test: its resolution is not
\* started again.
C26_SingleFlight ==
    lastTick # NoValue =>
        \A i \in DOMAIN lastTick.passed :
            lastTick.passed[i].marked => ~lastTick.passed[i].entered
C26_Witness ==
    /\ lastTick # NoValue
    /\ \E i \in DOMAIN lastTick.passed :
           lastTick.passed[i].marked /\ lastTick.passed[i].tagged

C30_ProbeBounded ==
    /\ Cardinality(inFlight) <= ProbeBatchSize
    /\ \A i, j \in DOMAIN headRequests : headRequests[i] = headRequests[j] => i = j
    /\ headRequests # <<>> =>
           \A i \in DOMAIN scan.asked : scan.asked[i] # "list"
C30_Witness ==
    /\ Cardinality(inFlight) = ProbeBatchSize
    /\ \E i \in DOMAIN headRequests :
           /\ headRequests[i] \in testedUrls \ inFlight
           /\ \E f \in RangeOf(QuickTestNames) :
                  headRequests[i] = UserImagesUrl(scan.holder, f)
    /\ scan.pc = "batch"


\* C35: no element is in renderQueue twice.
C35_QueueHasNoDuplicates ==
    \A i, j \in DOMAIN renderQueue : renderQueue[i] = renderQueue[j] => i = j
\* Message 2 got a placeholder appended while it was queued, and
\* processMutationBatch has run without pushing anything.
C35_Witness ==
    /\ \E i \in DOMAIN renderQueue : renderQueue[i] = 2
    /\ \E k \in DOMAIN chat[2].html :
           chat[2].html[k].type = "tag" /\ chat[2].html[k].name = wave
    /\ ~mutationTimeout
    /\ mutationBatch = <<>>
    /\ clock = LoopMessages - 1

SumBytes(map) ==
    LET F[i \in 0..Len(map)] == IF i = 0 THEN 0 ELSE F[i - 1] + map[i].v.bytes
    IN  F[Len(map)]

\* C40: fileBufferCache never holds more than maxItems entries, totalBytes is
\* the sum of the byte sizes of its entries and is at most maxBytes, and a
\* set of more than maxBytes leaves the cache as it was.
C40_LruWithinLimits ==
    /\ Len(lruMap) <= MaxItems
    /\ totalBytes = SumBytes(lruMap)
    /\ totalBytes <= MaxBytes
    /\ (lruCall # NoValue /\ lruCall.op = "set" /\ lruCall.bytes > MaxBytes)
           => LruCache(lruMap, totalBytes) = lruCall.before
\* A set of a new key into a full cache, which evicted the oldest entry and
\* leaves the cache full to the byte.
C40_Witness ==
    /\ lruCall # NoValue
    /\ lruCall.op = "set"
    /\ Len(lruCall.before.map) = MaxItems
    /\ ~MapHas(lruCall.before.map, lruCall.key)
    /\ MapHas(lruMap, lruCall.key)
    /\ ~MapHas(lruMap, Head(lruCall.before.map).k)
    /\ totalBytes = MaxBytes
\* A set of more than maxBytes for a key the full cache holds.
C40_OversizeSet ==
    /\ lruCall # NoValue
    /\ lruCall.op = "set"
    /\ lruCall.bytes > MaxBytes
    /\ MapHas(lruMap, lruCall.key)
    /\ Len(lruMap) = MaxItems

\* C37: at most one processBatchRender call is in progress at a time, a call
\* awaiting a cache build included, and isRenderScheduled is true whenever
\* an idle callback is pending or a call is in progress.
C37_SingleTickInProgress ==
    /\ Len(ticks) <= 1
    /\ (idleCallbacks > 0 \/ ticks # <<>>) => isRenderScheduled

EntriesOf(map) == {map[i] : i \in DOMAIN map}
\* C38: a character cache that is marked valid for the selected character
\* holds what a build from the registry and the sources as they are gives:
\* no build that was in flight when the cache was invalidated leaves the
\* entries of the registry it read before the invalidation installed.
C38_NoStaleInstall ==
    (cachedCharacterId = characterId /\ assetCache # <<>>) =>
        EntriesOf(assetCache) = EntriesOf(RebuiltAssetCache(characters[characterId]))

\* C39: an observed message that has entered the viewport while rendering
\* is active, and is neither processed nor memoized as placeholder-free, is
\* queued once the scroll is over: with no scroll in progress, no timer and
\* no idle callback pending, no such message is still observed, in view and
\* not in renderQueue.
C39_VisibleIsQueued ==
    (isAssetRenderingActive /\ ~isScrolling /\ ~scrollTimeout
     /\ idleCallbacks = 0 /\ ticks = <<>>) =>
        \A m \in observing \cap inView :
            (m \notin processedMessages /\ m \notin noImageTagMessages)
                => InSeq(renderQueue, m)

\* C33: with no scope event, a current character that has assets keeps the
\* render machine working after a registry write: rendering stays active,
\* and once no idle callback is pending and no tick is in progress every
\* message in view has been processed or memoized as placeholder-free.
C33_RendersAfterWrite ==
    checkCharacterHasAssets =>
        /\ isAssetRenderingActive
        /\ (idleCallbacks = 0 /\ ticks = <<>>) =>
               \A m \in inView : m \in processedMessages \cup noImageTagMessages

\* C32: no state has a renderQueue that is not empty with no idle callback
\* pending, no processBatchRender call in progress and no timer pending
\* (scroll stop, updateAssetRenderingState) that would schedule one.
C32_NoStuckQueue ==
    renderQueue # <<>> =>
        \/ idleCallbacks > 0
        \/ ticks # <<>>
        \/ scrollTimeout
        \/ updateTimer > 0

\* The pushes onto renderQueue so far: one for each message, and one more
\* for a processed message that still holds a placeholder.  A processed
\* message handed to renderMessageFast again is not written again.
InBatch(m) == \E k \in DOMAIN mutationBatch : mutationBatch[k].mes = m
FurtherPushes ==
    Cardinality({m \in processedMessages :
                    /\ HasImgTag(chat[m].html)
                    /\ \E i \in DOMAIN chat[m].html : chat[m].html[i].type = "img"})
OneFurtherProcessing ==
    /\ clock <= LoopMessages + FurtherPushes
    /\ lastTick # NoValue =>
           \A i \in DOMAIN lastTick.passed :
               lastTick.passed[i].processed => ~InBatch(lastTick.passed[i].m)
\* Work is pending only with its callback or timer pending.
NothingLeftBehind ==
    /\ renderQueue # <<>> => idleCallbacks > 0
    /\ mutationBatch # <<>> => mutationTimeout
Quiescent ==
    /\ renderQueue = <<>>
    /\ idleCallbacks = 0
    /\ ~mutationTimeout
    /\ mutationBatch = <<>>
\* The work left: the pushes still possible, the queued messages, the
\* pending callbacks and the pending timer.  Every step but a tick whose
\* deadline is spent makes it smaller.
WorkLeft ==
    4 * (2 * LoopMessages - clock) + 2 * Len(renderQueue) + idleCallbacks
    + (IF mutationTimeout THEN 1 ELSE 0)
SpentTick ==
    /\ idleCallbacks > 0
    /\ UNCHANGED <<chat, renderQueue, mutationBatch, mutationTimeout, idleCallbacks,
                   processedMessages, noImageTagMessages, clock>>
StillRegistered(asset) ==
    \E i \in DOMAIN getAssetsRaw(CurrentCharacter) :
        getAssetsRaw(CurrentCharacter)[i].name = asset.name
StillHit(asset) ==
    CacheLookup(asset.name, RebuiltAssetCache(CurrentCharacter), <<>>) # NoValue
JustDeleted == IF cacheEvent # NoValue /\ cacheEvent.kind = "delete"
               THEN cacheEvent.assets ELSE {}
C34_DeletedAssetGone ==
    \A asset \in JustDeleted : ~StillRegistered(asset) /\ ~StillHit(asset)

\* C31: every invalidateAssetCache() call of an upload, a delete or a
\* migration is made when the storage backend has answered all of the
\* handler's requests and writeExtensionField has been called for the
\* registry the handler saves.
C31_InvalidatedAfterCompletion ==
    lastInvalidate # NoValue =>
        /\ lastInvalidate.pending = 0
        /\ lastInvalidate.written

=============================================================================
